---- MODULE Spec2Model ----
(***************************************************************************)
(* A model of the zonal-fim core: the slope-weighted barycentric weights   *)
(* of barrycentric.py (calculate_slope, calculate_barycentric_weights,     *)
(* compute_3d_barycentric), the cell aggregation and the rasters of        *)
(* bary_interpolation.py (interpolate, make_depth_raster) and the tables   *)
(* of geometry_manipulation.py.                                            *)
(*                                                                         *)
(* Numbers.  The program computes in IEEE doubles.  The model computes in  *)
(* exact rationals extended with NaN and +/-Inf, so that a division by     *)
(* zero gives what numpy gives (0/0 = NaN, x/0 = Inf) and every other      *)
(* result is the real number the double approximates.  TLC's integers have *)
(* 32 bits and the literal 0.33333333333 alone needs 35, so numerators and *)
(* denominators are little-endian digit sequences in base Base.  The       *)
(* rasters are written as float32: there a value is rounded to the nearest *)
(* binary32.                                                               *)
(***************************************************************************)
EXTENDS Integers, Sequences, FiniteSets, Bags, TLC

\* ------------------------------------------------------------------------
\* Natural numbers of any size: <<d1, d2, ...>> is d1 + d2*Base + ...,
\* without leading zero digits; <<>> is 0.
\* ------------------------------------------------------------------------

Base == 10^4

RECURSIVE BNFromNat(_)
BNFromNat(n) == IF n = 0 THEN <<>> ELSE <<n % Base>> \o BNFromNat(n \div Base)

\* Only for Len(a) <= 2 (below 10^8).
BNToNat(a) ==
    IF a = <<>> THEN 0 ELSE IF Len(a) = 1 THEN a[1] ELSE a[1] + Base * a[2]

RECURSIVE BNTrim(_)
BNTrim(a) ==
    IF a = <<>> THEN a
    ELSE IF a[Len(a)] = 0 THEN BNTrim(SubSeq(a, 1, Len(a) - 1)) ELSE a

RECURSIVE BNCmpAt(_, _, _)
BNCmpAt(a, b, i) ==
    IF i = 0 THEN 0
    ELSE IF a[i] < b[i] THEN -1
    ELSE IF a[i] > b[i] THEN 1
    ELSE BNCmpAt(a, b, i - 1)

\* -1, 0, 1 as a < b, a = b, a > b.
BNCmp(a, b) ==
    IF Len(a) < Len(b) THEN -1
    ELSE IF Len(a) > Len(b) THEN 1
    ELSE BNCmpAt(a, b, Len(a))

RECURSIVE BNAddAt(_, _, _, _)
BNAddAt(a, b, i, c) ==
    IF i > Len(a) /\ i > Len(b) THEN (IF c = 0 THEN <<>> ELSE <<c>>)
    ELSE LET x == (IF i <= Len(a) THEN a[i] ELSE 0)
                  + (IF i <= Len(b) THEN b[i] ELSE 0) + c
         IN  <<x % Base>> \o BNAddAt(a, b, i + 1, x \div Base)

BNAdd(a, b) == IF a = <<>> THEN b ELSE IF b = <<>> THEN a ELSE BNAddAt(a, b, 1, 0)

RECURSIVE BNSubAt(_, _, _, _)
BNSubAt(a, b, i, br) ==
    IF i > Len(a) THEN <<>>
    ELSE LET x == a[i] - (IF i <= Len(b) THEN b[i] ELSE 0) - br
         IN  <<x % Base>> \o BNSubAt(a, b, i + 1, IF x < 0 THEN 1 ELSE 0)

\* a - b for a >= b.
BNSub(a, b) == IF b = <<>> THEN a ELSE BNTrim(BNSubAt(a, b, 1, 0))

RECURSIVE BNMulSmallAt(_, _, _, _)
BNMulSmallAt(a, k, i, c) ==
    IF i > Len(a) THEN BNFromNat(c)
    ELSE LET x == a[i] * k + c
         IN  <<x % Base>> \o BNMulSmallAt(a, k, i + 1, x \div Base)

\* a * k for one digit k.
BNMulSmall(a, k) ==
    IF k = 0 \/ a = <<>> THEN <<>> ELSE IF k = 1 THEN a ELSE BNMulSmallAt(a, k, 1, 0)

BNShift(a) == IF a = <<>> THEN a ELSE <<0>> \o a

RECURSIVE BNMulAt(_, _, _)
BNMulAt(a, b, j) ==
    IF j > Len(b) THEN <<>>
    ELSE BNAdd(BNMulSmall(a, b[j]), BNShift(BNMulAt(a, b, j + 1)))

BNMul(a, b) ==
    IF a = <<>> \/ b = <<>> THEN <<>>
    ELSE IF a = <<1>> THEN b
    ELSE IF b = <<1>> THEN a
    ELSE IF Len(a) = 1 /\ Len(b) = 1 THEN BNFromNat(a[1] * b[1])
    ELSE BNMulAt(a, b, 1)

\* The largest k in lo..hi with b*k <= r, given b*lo <= r.
RECURSIVE BNQDigit(_, _, _, _)
BNQDigit(r, b, lo, hi) ==
    IF lo >= hi THEN lo
    ELSE LET mid == (lo + hi + 1) \div 2
         IN  IF BNCmp(BNMulSmall(b, mid), r) <= 0
             THEN BNQDigit(r, b, mid, hi)
             ELSE BNQDigit(r, b, lo, mid - 1)

BNQuotBetween(r, b, rt, bt) ==
    BNQDigit(r, b, IF rt \div (bt + 1) < 1 THEN 1 ELSE rt \div (bt + 1),
                   IF rt \div bt > Base - 1 THEN Base - 1 ELSE rt \div bt)

\* One digit of a long division: r \div b for r < b*Base.  The leading
\* digits of r and b bracket the quotient; a bisection settles it.
BNQuot(r, b) ==
    IF BNCmp(r, b) < 0 THEN 0
    ELSE IF Len(r) <= 2 THEN BNToNat(r) \div BNToNat(b)
    ELSE BNQuotBetween(r, b, BNToNat(SubSeq(r, Len(b), Len(r))), b[Len(b)])

BNDivModPut(q, r0, b, qd) ==
    [q |-> BNTrim(<<qd>> \o q), r |-> BNSub(r0, BNMulSmall(b, qd))]

BNDivModDigit(q, r0, b) == BNDivModPut(q, r0, b, BNQuot(r0, b))

\* One step of the long division: digit ai joins the remainder of the
\* higher digits.
BNDivModNext(hi, ai, b) == BNDivModDigit(hi.q, BNTrim(<<ai>> \o hi.r), b)

\* Quotient and remainder of the number made of the digits i..Len(a) of a.
RECURSIVE BNDivModAt(_, _, _)
BNDivModAt(a, b, i) ==
    IF i > Len(a) THEN [q |-> <<>>, r |-> <<>>]
    ELSE BNDivModNext(BNDivModAt(a, b, i + 1), a[i], b)

BNDivMod(a, b) ==
    IF b = <<1>> THEN [q |-> a, r |-> <<>>]
    ELSE IF BNCmp(a, b) < 0 THEN [q |-> <<>>, r |-> a]
    ELSE IF Len(a) <= 2
         THEN [q |-> BNFromNat(BNToNat(a) \div BNToNat(b)),
               r |-> BNFromNat(BNToNat(a) % BNToNat(b))]
    ELSE BNDivModAt(a, b, 1)

BNDiv(a, b) == BNDivMod(a, b).q

BNMod(a, b) == BNDivMod(a, b).r

RECURSIVE NatGcd(_, _)
NatGcd(a, b) ==
    IF b = 0 THEN a
    ELSE LET r1 == a % b
         IN  IF r1 = 0 THEN b
             ELSE LET r2 == b % r1
                  IN  IF r2 = 0 THEN r1 ELSE NatGcd(r2, r1 % r2)

RECURSIVE BNGcd(_, _)
BNGcd(a, b) ==
    IF b = <<>> THEN a
    ELSE IF a = <<1>> \/ b = <<1>> THEN <<1>>
    ELSE IF Len(a) <= 2 /\ Len(b) <= 2
         THEN BNFromNat(NatGcd(BNToNat(a), BNToNat(b)))
    ELSE BNGcd(b, BNMod(a, b))

\* Newton's iteration from above: the floor of the square root of n.
RECURSIVE BNSqrtFrom(_, _)
BNSqrtStep(n, x, y) == IF BNCmp(y, x) >= 0 THEN x ELSE BNSqrtFrom(n, y)

BNSqrtFrom(n, x) == BNSqrtStep(n, x, BNDiv(BNAdd(x, BNDiv(n, x)), <<2>>))

RECURSIVE BNPowBase(_)
BNPowBase(k) == IF k = 0 THEN <<1>> ELSE <<0>> \o BNPowBase(k - 1)

BNSqrt(n) ==
    IF n = <<>> THEN <<>> ELSE BNSqrtFrom(n, BNPowBase((Len(n) + 1) \div 2))

\* ------------------------------------------------------------------------
\* Doubles: [k, s, n, d].  k = "q": the rational s*n/d in lowest terms
\* (s in {-1, 0, 1}, n and d digit sequences, d > 0); k = "inf": s*Inf;
\* k = "nan": NaN; k = "irr": a positive irrational square root, which the
\* model does not represent (the inputs are chosen so that none arises).
\* ------------------------------------------------------------------------

NaN == [k |-> "nan", s |-> 0, n |-> <<>>, d |-> <<1>>]

Inf(sg) == [k |-> "inf", s |-> sg, n |-> <<>>, d |-> <<1>>]

Irr == [k |-> "irr", s |-> 1, n |-> <<>>, d |-> <<1>>]

\* Python's None in a list of weights.
None == [k |-> "none", s |-> 0, n |-> <<>>, d |-> <<1>>]

\* SQL NULL.
Null == [k |-> "null", s |-> 0, n |-> <<>>, d |-> <<1>>]

\* s*n/d for digit sequences n, d already in lowest terms.
Q(sg, n, d) ==
    IF n = <<>> THEN [k |-> "q", s |-> 0, n |-> <<>>, d |-> <<1>>]
    ELSE [k |-> "q", s |-> sg, n |-> n, d |-> d]

FromInt(i) == IF i < 0 THEN Q(-1, BNFromNat(-i), <<1>>) ELSE Q(1, BNFromNat(i), <<1>>)

Zero == FromInt(0)

One == FromInt(1)

\* n/d for integers n and d > 0, reduced.
Ratio(n, d) ==
    LET a == IF n < 0 THEN -n ELSE n
        g == NatGcd(a, d)
    IN  Q(IF n < 0 THEN -1 ELSE 1, BNFromNat(a \div g), BNFromNat(d \div g))

IsFinite(x) == x.k = "q"

IsNaN(x) == x.k = "nan"

FNeg(x) == IF x.k \in {"q", "inf"} THEN [x EXCEPT !.s = -x.s] ELSE x

\* abs()
FAbs(x) == IF x.k \in {"q", "inf"} THEN [x EXCEPT !.s = IF x.s = 0 THEN 0 ELSE 1] ELSE x

QReduceBy(sg, num, den, g2) == Q(sg, BNDiv(num, g2), BNDiv(den, g2))

\* sg*num/den in lowest terms, when only a divisor of g is left to cancel.
QReduce(sg, num, den, g) ==
    IF num = <<>> THEN Q(0, <<>>, <<1>>)
    ELSE QReduceBy(sg, num, den, BNGcd(g, BNMod(num, g)))

QAddSigned(sx, sy, g, a, b, den, c) ==
    QReduce(IF sx = sy \/ c >= 0 THEN sx ELSE sy,
            IF sx = sy THEN BNAdd(a, b) ELSE IF c >= 0 THEN BNSub(a, b) ELSE BNSub(b, a),
            den, g)

QAddParts(sx, sy, g, a, b, den) == QAddSigned(sx, sy, g, a, b, den, BNCmp(a, b))

QAddOver(x, y, g, dx, dy) ==
    QAddParts(x.s, y.s, g, BNMul(x.n, dy), BNMul(y.n, dx), BNMul(dx, y.d))

QAddWith(x, y, g) == QAddOver(x, y, g, BNDiv(x.d, g), BNDiv(y.d, g))

\* The sum of two rationals, reduced: with g = gcd(dx, dy) only gcd(num, g)
\* is left to cancel.
QAdd(x, y) ==
    IF x.s = 0 THEN y
    ELSE IF y.s = 0 THEN x
    ELSE QAddWith(x, y, IF x.d = y.d THEN x.d ELSE BNGcd(x.d, y.d))

QMulWith(x, y, g1, g2) ==
    Q(x.s * y.s,
      BNMul(BNDiv(x.n, g1), BNDiv(y.n, g2)),
      BNMul(BNDiv(x.d, g2), BNDiv(y.d, g1)))

\* The product of two rationals, reduced crosswise before multiplying.
QMul(x, y) ==
    IF x.s = 0 \/ y.s = 0 THEN Q(0, <<>>, <<1>>)
    ELSE QMulWith(x, y, BNGcd(x.n, y.d), BNGcd(y.n, x.d))

\* 1/x for a rational x # 0.
QInv(x) == Q(x.s, x.d, x.n)

\* -1, 0, 1 as x < y, x = y, x > y, for rationals.
QCmp(x, y) == QAdd(x, FNeg(y)).s

\* x + y in IEEE arithmetic.
FAdd(x, y) ==
    IF x.k = "nan" \/ y.k = "nan" THEN NaN
    ELSE IF x.k = "inf" /\ y.k = "inf" THEN (IF x.s = y.s THEN x ELSE NaN)
    ELSE IF x.k = "inf" THEN x
    ELSE IF y.k = "inf" THEN y
    ELSE IF x.k = "irr" \/ y.k = "irr" THEN Irr
    ELSE QAdd(x, y)

FSub(x, y) == FAdd(x, FNeg(y))

\* x * y in IEEE arithmetic.
FMul(x, y) ==
    IF x.k = "nan" \/ y.k = "nan" THEN NaN
    ELSE IF x.k = "inf" \/ y.k = "inf"
         THEN (IF x.s = 0 \/ y.s = 0 THEN NaN ELSE Inf(x.s * y.s))
    ELSE IF x.k = "irr" \/ y.k = "irr" THEN Irr
    ELSE QMul(x, y)

\* x / y in numpy's IEEE arithmetic: no exception, 0/0 = NaN, x/0 = +-Inf.
FDiv(x, y) ==
    IF x.k = "nan" \/ y.k = "nan" THEN NaN
    ELSE IF y.k = "inf" THEN (IF x.k = "inf" THEN NaN ELSE Zero)
    ELSE IF x.k = "inf" THEN Inf(IF y.s < 0 THEN -x.s ELSE x.s)
    ELSE IF y.s = 0 THEN (IF x.s = 0 THEN NaN ELSE Inf(x.s))
    ELSE IF x.k = "irr" \/ y.k = "irr" THEN Irr
    ELSE QMul(x, QInv(y))

QSqrtFrom(x, rn, rd) ==
    IF BNMul(rn, rn) = x.n /\ BNMul(rd, rd) = x.d THEN Q(1, rn, rd) ELSE Irr

\* sqrt(x): exact when x is the square of a rational.
FSqrt(x) ==
    IF x.k = "nan" THEN NaN
    ELSE IF x.k = "irr" THEN Irr
    ELSE IF x.s < 0 THEN NaN
    ELSE IF x.k = "inf" THEN x
    ELSE IF x.s = 0 THEN Zero
    ELSE QSqrtFrom(x, BNSqrt(x.n), BNSqrt(x.d))

\* x < y, x <= y for doubles (false when either is NaN).
FLt(x, y) ==
    IF x.k = "nan" \/ y.k = "nan" THEN FALSE
    ELSE IF x.k = "inf" THEN x.s < 0 /\ ~(y.k = "inf" /\ y.s < 0)
    ELSE IF y.k = "inf" THEN y.s > 0
    ELSE QCmp(x, y) < 0

FLe(x, y) == x.k # "nan" /\ y.k # "nan" /\ (x = y \/ FLt(x, y))

BNSquare(a) == BNMul(a, a)

\* 2^k
RECURSIVE BNPow2(_)
BNPow2(k) ==
    IF k = 0 THEN <<1>>
    ELSE IF k % 2 = 0 THEN BNSquare(BNPow2(k \div 2))
    ELSE BNMulSmall(BNPow2(k - 1), 2)

\* -1, 0, 1 as n/d < 2^e, n/d = 2^e, n/d > 2^e.
CmpPow2(n, d, e) ==
    IF e >= 0 THEN BNCmp(n, BNMul(d, BNPow2(e))) ELSE BNCmp(BNMul(n, BNPow2(-e)), d)

\* The exponent of the last place of the binary32 nearest to n/d > 0: the
\* e with 2^(e+23) <= n/d < 2^(e+24) (24 bits of precision), and -149 for
\* the subnormal numbers.
RECURSIVE Float32Exponent(_, _, _)
Float32Exponent(n, d, e) ==
    IF CmpPow2(n, d, e + 24) >= 0 THEN Float32Exponent(n, d, e + 1)
    ELSE IF e > -149 /\ CmpPow2(n, d, e + 23) < 0 THEN Float32Exponent(n, d, e - 1)
    ELSE e

\* Round to nearest, ties to even: the quotient qr.q with remainder qr.r
\* of a division by den.
RoundHalfEven(qr, den, c) ==
    IF c > 0 \/ (c = 0 /\ qr.q # <<>> /\ qr.q[1] % 2 = 1)
    THEN BNAdd(qr.q, <<1>>)
    ELSE qr.q

RoundedQuotient(num, den) ==
    RoundHalfEven(BNDivMod(num, den), den, BNCmp(BNMulSmall(BNMod(num, den), 2), den))

\* n/d in units of 2^e, rounded.
Float32Significand(n, d, e) ==
    IF e >= 0 THEN RoundedQuotient(n, BNMul(d, BNPow2(e)))
    ELSE RoundedQuotient(BNMul(n, BNPow2(-e)), d)

\* sg * m * 2^e as a binary32, for m <= 2^24: infinite from 2^128 on.
Float32Value(sg, m, e) ==
    IF m = <<>> THEN Q(0, <<>>, <<1>>)
    ELSE IF e > 104 \/ (e = 104 /\ m = BNPow2(24)) THEN Inf(sg)
    ELSE IF e >= 0 THEN Q(sg, BNMul(m, BNPow2(e)), <<1>>)
    ELSE QReduce(sg, m, BNPow2(-e), BNPow2(-e))

Float32At(x, e) == Float32Value(x.s, Float32Significand(x.n, x.d, e), e)

\* astype('float32') of one double: the nearest binary32.
AsFloat32(x) ==
    IF x.k # "q" \/ x.s = 0 THEN x ELSE Float32At(x, Float32Exponent(x.n, x.d, -23))

\* A decimal literal 0.d1d2...dk.
RECURSIVE DecimalDigits(_, _)
DecimalDigits(ds, i) ==
    IF i = 0 THEN <<>>
    ELSE BNAdd(BNMulSmall(DecimalDigits(ds, i - 1), 10), BNFromNat(ds[i]))

RECURSIVE BNPow10(_)
BNPow10(k) == IF k = 0 THEN <<1>> ELSE BNMulSmall(BNPow10(k - 1), 10)

Decimal(ds) ==
    QMul(Q(1, DecimalDigits(ds, Len(ds)), <<1>>), Q(1, <<1>>, BNPow10(Len(ds))))

\* ------------------------------------------------------------------------
\* numpy vectors: sequences of doubles.
\* ------------------------------------------------------------------------

Point(p) == <<FromInt(p[1]), FromInt(p[2]), FromInt(p[3])>>

Pair(f) == <<f[1], f[2]>>

Triple(f) == <<f[1], f[2], f[3]>>

\* The index after i, cyclically in 1..3.
Succ3(i) == (i % 3) + 1

VSub(u, v) == Triple([i \in 1..3 |-> FSub(u[i], v[i])])

\* v[1] + v[2] + v[3], left to right.
Sum3(v) == FAdd(FAdd(v[1], v[2]), v[3])

\* v / total, by component.
Shares(v, total) == Triple([i \in 1..3 |-> FDiv(v[i], total)])

\* np.cross
Cross(u, v) ==
    Triple([i \in 1..3 |->
               FSub(FMul(u[Succ3(i)], v[Succ3(Succ3(i))]),
                    FMul(u[Succ3(Succ3(i))], v[Succ3(i)]))])

RECURSIVE SumSq(_, _)
SumSq(u, i) == IF i = 0 THEN Zero ELSE FAdd(SumSq(u, i - 1), FMul(u[i], u[i]))

\* np.linalg.norm
Norm(u) == FSqrt(SumSq(u, Len(u)))

NormQuotOf(a, b) ==
    IF IsFinite(a) /\ IsFinite(b) /\ b.s # 0
    THEN FSqrt(FDiv(a, b))
    ELSE FDiv(FSqrt(a), FSqrt(b))

\* np.linalg.norm(u) / np.linalg.norm(v).  The two norms are as a rule
\* irrational while their quotient is not, so the quotient is taken under
\* the root; a zero (or non-finite) divisor is divided by as the code does.
NormQuot(u, v) == NormQuotOf(SumSq(u, Len(u)), SumSq(v, Len(v)))

\* ------------------------------------------------------------------------
\* barrycentric.py
\* ------------------------------------------------------------------------

\* slope1, slope2 without the zero-distance guard.
SlopeUnguarded(dz, distance) == FAbs(FDiv(dz, distance))

\* slope1, slope2 without abs(): the sign of dz is kept.
SlopeSigned(dz, distance) == IF distance # Zero THEN FDiv(dz, distance) ELSE Zero

\* slope1, slope2: abs(dz / distance) if distance != 0 else 0
Slope(dz, distance) == IF distance # Zero THEN FAbs(FDiv(dz, distance)) ELSE Zero

\* The slope along the vector from the vertex to one of the other two:
\* its dz against its horizontal length.
SlopeAlong(vector) == Slope(vector[3], Norm(<<vector[1], vector[2]>>))

\* The slope toward the first of the two other vertices alone.
SlopeTowardFirst(slope) == slope[1]

\* (slope1 + slope2) / 2
MeanOfSlopes(slope) == FDiv(FAdd(slope[1], slope[2]), FromInt(2))

calculate_slope(vertex, other_vertex1, other_vertex2) ==
    MeanOfSlopes(Pair([k \in 1..2 |->
                      SlopeAlong(VSub(<<other_vertex1, other_vertex2>>[k], vertex))]))

\* The literal 0.33333333333 of the flat-region branch.
FlatWeight == Decimal(<<3, 3, 3, 3, 3, 3, 3, 3, 3, 3, 3>>)

\* The other two vertices of each vertex, in the order the slopes are
\* called with: (A; B, C), (B; A, C), (C; A, B).
OtherVertices == << <<2, 3>>, <<1, 3>>, <<1, 2>> >>

\* slope_A, slope_B, slope_C: each vertex against the other two.
VertexSlopes(triangle_points) ==
    Triple([i \in 1..3 |->
               calculate_slope(triangle_points[i],
                               triangle_points[OtherVertices[i][1]],
                               triangle_points[OtherVertices[i][2]])])

SlopeWeightsOf(slope, total_slope) ==
    IF total_slope = Zero
    THEN Triple([i \in 1..3 |-> FlatWeight])
    ELSE Shares(slope, total_slope)

\* The slope weights w_A, w_B, w_C.
SlopeWeights(slope) == SlopeWeightsOf(slope, Sum3(slope))

\* The centroid with the slope weights left out: the mean of the vertices.
CentroidOfVertices(triangle_points, w) ==
    Triple([j \in 1..3 |->
               FDiv(Sum3(Triple([i \in 1..3 |-> triangle_points[i][j]])), FromInt(3))])

\* centroid = w_A * A_point + w_B * B_point + w_C * C_point
Centroid(triangle_points, w) ==
    Triple([j \in 1..3 |->
               Sum3(Triple([i \in 1..3 |-> FMul(w[i], triangle_points[i][j])]))])

\* vec_A, vec_B, vec_C
VertexVectors(triangle_points, centroid) ==
    Triple([i \in 1..3 |-> VSub(centroid, triangle_points[i])])

\* normal = np.cross(B_point - A_point, C_point - A_point)
Normal(triangle_points) ==
    Cross(VSub(triangle_points[2], triangle_points[1]),
          VSub(triangle_points[3], triangle_points[1]))

\* area_A, area_B, area_C: each from the vectors of the other two vertices.
AreasAround(vec, normal) ==
    Triple([i \in 1..3 |->
               NormQuot(Cross(vec[Succ3(i)], vec[Succ3(Succ3(i))]), normal)])

\* The sub-areas area_A, area_B, area_C around the weighted centroid.
SubAreas(triangle_points, w) ==
    AreasAround(VertexVectors(triangle_points, Centroid(triangle_points, w)),
                Normal(triangle_points))

\* total_area with area_C left out.
TotalAreaShort(area) == FAdd(area[1], area[2])

\* total_area = area_A + area_B + area_C
TotalArea(area) == Sum3(area)

\* The normalized weights weight_A, weight_B, weight_C.
NormalizeAreas(area) == Shares(area, TotalArea(area))

calculate_barycentric_weights(triangle_points) ==
    NormalizeAreas(SubAreas(triangle_points,
                            SlopeWeights(VertexSlopes(triangle_points))))

\* ------------------------------------------------------------------------
\* State
\* ------------------------------------------------------------------------

VARIABLES
    \* calculate_barycentric_weights, applied to one triangle
    triangle_points,    \* the argument: three <<x, y, z>> with integer entries
    slopes,             \* slope_A, slope_B, slope_C (lines 93-95)
    weights,            \* the returned weights_3d
    wpc,                \* "idle", "input" (not yet called), "done" (returned),
                        \* "reordered" (returned from a second call)
    \* compute_3d_barycentric
    node_coords_dict,   \* node_id -> <<long, lat, elevation>>
    triangles_df,       \* the element rows, in table order
    index,              \* rows the loop has processed
    w_A_list,
    w_B_list,
    w_C_list,
    triangle_weights,   \* the table triangle_weights (<<>> until created)
    metadata,           \* the rows of the table metadata
    printed,            \* what the run has printed, in order
    temp_exists,        \* the folder temp/ exists
    conn_open,          \* data_conn is open
    mpc,                \* "idle", "loop", "check", "cleanup", "done", "error"
    \* interpolate
    save_raster,          \* the argument save_raster
    width,                \* raster_meta['width'] of the reference raster
    height,               \* raster_meta['height'] of the reference raster
    coverage_fraction,    \* the table coverage_fraction (z_w): a set of rows
    triangle_barycentric, \* pg_id -> wse_weighted_average (or NULL)
    cell_wse,             \* z_w_merged as of line 83: cell, wse_cell_weighted_average
    z_w_merged,           \* z_w_merged as of line 93: with elevation, NaN filtered out
    depth,                \* the table depth
    cell_range_table,     \* "unbound" until line 112 binds it
    df_complete,          \* the completed cell table, ordered by cell
    raster_array,         \* <<row, col>> -> value, rows and columns from 0
    raster_file,          \* data/wse_barycentric_interpolation.tif (<<>>: not written)
    connections_open,     \* data_conn and out_data_conn are open
    ipc,                  \* "idle", "start", "depth", "grid", "complete", "raster",
                          \* "done", "error"
    \* make_depth_raster
    src1,                 \* the WSE raster at wse_path: values, nodata, crs
    src2,                 \* the DEM raster at dem_path, read on the grid of src1
    mask_negative,        \* the argument mask_negative
    depth_raster_file,    \* data/depth_barycentric_interpolation.tif (<<>>: not written)
    dpc,                  \* "idle", "start", "done", "error"
    \* geometry_manipulation.py
    call,                 \* the function called
    table_name,           \* the argument table_name ("": not an argument of the call)
    df,                   \* the argument df: a frame, or NoFrame for None
    df_path,              \* the argument df_path: a path, or NoPath for None
    lat_col_nam,          \* the argument lat_col_nam
    long_col_name,        \* the argument long_col_name
    point_gdf_table,      \* the argument point_gdf_table
    masked_table_name,    \* the argument masked_table_name
    elevation_table,      \* the argument elevation_table
    dem_path,             \* the raster at dem_path (s3_path in src/tools), or NoRaster
    database,             \* the tables of the database: a set of <<name, table>>
    temp_dir,             \* the folder temp/: whether it exists, and its files
    data_conn,            \* "none" (never opened), "open", "closed"
    tpc                   \* "idle", "start", "done", "error" (ValueError),
                          \* "db_error" (an error of DuckDB), "attribute_error"
                          \* (a frame without geometry), "os_error" (os.rmdir of
                          \* a folder with files)

weightVars == <<triangle_points, slopes, weights, wpc>>

meshVars == <<node_coords_dict, triangles_df, index, w_A_list, w_B_list, w_C_list,
              triangle_weights, metadata, printed, temp_exists, conn_open, mpc>>

interpVars == <<save_raster, width, height, coverage_fraction, triangle_barycentric,
                cell_wse, z_w_merged, depth, cell_range_table, df_complete,
                raster_array, raster_file, connections_open, ipc>>

depthVars == <<src1, src2, mask_negative, depth_raster_file, dpc>>

\* The function called and its arguments.
writeArgs == <<call, table_name, df, df_path, lat_col_nam, long_col_name, point_gdf_table,
               masked_table_name, elevation_table, dem_path>>

writeVars == <<writeArgs, database, temp_dir, data_conn, tpc>>

vars == <<weightVars, meshVars, interpVars, depthVars, writeVars>>

WeightsIdle ==
    /\ triangle_points = <<>>
    /\ slopes = <<>>
    /\ weights = <<>>
    /\ wpc = "idle"

MeshIdle ==
    /\ node_coords_dict = <<>>
    /\ triangles_df = <<>>
    /\ index = 0
    /\ w_A_list = <<>>
    /\ w_B_list = <<>>
    /\ w_C_list = <<>>
    /\ triangle_weights = <<>>
    /\ metadata = <<>>
    /\ printed = <<>>
    /\ temp_exists = FALSE
    /\ conn_open = FALSE
    /\ mpc = "idle"

InterpIdle ==
    /\ save_raster = FALSE
    /\ width = 0
    /\ height = 0
    /\ coverage_fraction = {}
    /\ triangle_barycentric = <<>>
    /\ cell_wse = {}
    /\ z_w_merged = {}
    /\ depth = {}
    /\ cell_range_table = "unbound"
    /\ df_complete = <<>>
    /\ raster_array = <<>>
    /\ raster_file = <<>>
    /\ connections_open = FALSE
    /\ ipc = "idle"

DepthIdle ==
    /\ src1 = <<>>
    /\ src2 = <<>>
    /\ mask_negative = FALSE
    /\ depth_raster_file = <<>>
    /\ dpc = "idle"

\* df=None
NoFrame == [given |-> FALSE, geo |-> FALSE, columns |-> <<>>, rows |-> <<>>]

\* df_path=None
NoPath == ""

\* No raster is an argument of the call.
NoRaster == [crs |-> "", valid |-> <<>>, elevation |-> {}]

\* The folder temp/ does not exist.
NoFolder == [exists |-> FALSE, files |-> {}]

WriteIdle ==
    /\ call = ""
    /\ table_name = ""
    /\ df = NoFrame
    /\ df_path = NoPath
    /\ lat_col_nam = ""
    /\ long_col_name = ""
    /\ point_gdf_table = ""
    /\ masked_table_name = ""
    /\ elevation_table = ""
    /\ dem_path = NoRaster
    /\ database = {}
    /\ temp_dir = NoFolder
    /\ data_conn = "none"
    /\ tpc = "idle"

\* ------------------------------------------------------------------------
\* calculate_barycentric_weights on one triangle
\* ------------------------------------------------------------------------

\* Elevations 0, 5, ..., 5*MaxElevationStep.
MaxElevationStep == 2

Elevations == {5 * k : k \in 0..MaxElevationStep}

\* Horizontal positions at integer distances from each other (3, 4, 5, 6),
\* so that every horizontal distance is a rational; three of them are
\* collinear.
HorizontalSites == {<<0, 0>>, <<3, 0>>, <<0, 4>>, <<-3, 0>>}

\* Where the triangle lies relative to the coordinate origin.
Origins == {<<0, 0>>, <<12, 16>>}

Vertices(o) == {<<h[1] + o[1], h[2] + o[2], z>> : h \in HorizontalSites, z \in Elevations}

\* The cross product (B - A) x (C - A) of an integer triangle.
IntNormal(t) ==
    LET u == <<t[2][1] - t[1][1], t[2][2] - t[1][2], t[2][3] - t[1][3]>>
        v == <<t[3][1] - t[1][1], t[3][2] - t[1][2], t[3][3] - t[1][3]>>
    IN  <<u[2] * v[3] - u[3] * v[2], u[3] * v[1] - u[1] * v[3], u[1] * v[2] - u[2] * v[1]>>

\* The three vertices are collinear or coincide.
Degenerate(t) == IntNormal(t) = <<0, 0, 0>>

Points(t) == <<Point(t[1]), Point(t[2]), Point(t[3])>>

\* total_slope == 0: the flat-region branch is taken.
IsFlat(t) == Sum3(VertexSlopes(Points(t))) = Zero

\* The three points have the same z.
EqualElevations(t) == t[1][3] = t[2][3] /\ t[2][3] = t[3][3]

\* Three points of one z that span an area, above or below elevation 0,
\* have sub-areas that are irrational square roots; such triangles are
\* left out.
ExactInput(t) == (EqualElevations(t) /\ ~Degenerate(t)) => t[1][3] = 0

TriangleInputs(o) == {t \in Vertices(o) \X Vertices(o) \X Vertices(o) : ExactInput(t)}

WeightsInit ==
    /\ \E o \in Origins : triangle_points \in TriangleInputs(o)
    /\ slopes = <<>>
    /\ weights = <<>>
    /\ wpc = "input"
    /\ MeshIdle
    /\ InterpIdle
    /\ DepthIdle
    /\ WriteIdle

\* weights = calculate_barycentric_weights(triangle_points)
Weigh ==
    /\ wpc = "input"
    /\ slopes' = VertexSlopes(Points(triangle_points))
    /\ weights' = calculate_barycentric_weights(Points(triangle_points))
    /\ wpc' = "done"
    /\ UNCHANGED <<triangle_points, meshVars, interpVars, depthVars, writeVars>>

WeightsNext == Weigh

SpecWeights == WeightsInit /\ [][WeightsNext]_vars

\* No result is an irrational the model cannot represent.
WeightsExact ==
    wpc = "done" =>
        \A i \in 1..3 : weights[i].k \in {"q", "nan", "inf"} /\ slopes[i].k = "q"

\* ------------------------------------------------------------------------
\* Claims about calculate_slope and calculate_barycentric_weights
\* ------------------------------------------------------------------------

Third == Ratio(1, 3)

UniformWeights == <<Third, Third, Third>>

\* C1: for every non-degenerate triangle the three returned weights are
\* each >= 0 and sum to 1.
C1_WeightsNonNegativeSumToOne ==
    (wpc = "done" /\ ~Degenerate(triangle_points)) =>
        /\ \A i \in 1..3 : IsFinite(weights[i]) /\ weights[i].s >= 0
        /\ FAdd(FAdd(weights[1], weights[2]), weights[3]) = One

\* A sloped non-degenerate triangle has been weighed: (5/18, 2/9, 1/2).
C1_Witness ==
    /\ wpc = "done"
    /\ triangle_points = << <<0, 0, 0>>, <<3, 0, 0>>, <<0, 4, 10>> >>
    /\ ~Degenerate(triangle_points)
    /\ weights = <<Ratio(5, 18), Ratio(2, 9), Ratio(1, 2)>>

\* C2: for every degenerate triangle (collinear or coincident vertices) the
\* result holds no NaN: it is the uniform fallback (1/3, 1/3, 1/3), whether
\* or not the flat-region branch was taken.
C2_DegenerateGetsUniformFallback ==
    (wpc = "done" /\ Degenerate(triangle_points)) =>
        /\ \A i \in 1..3 : ~IsNaN(weights[i])
        /\ weights = UniformWeights

\* C3: for every triangle with three equal z (and a non-zero area) the
\* result is exactly (1/3, 1/3, 1/3), wherever the triangle lies.
C3_FlatGetsExactThirds ==
    (wpc = "done" /\ EqualElevations(triangle_points) /\ ~Degenerate(triangle_points)) =>
        weights = UniformWeights

\* The horizontal distance of two integer points (an integer for the
\* horizontal sites of the model).
IntDistance(p, q) ==
    LET sq == (q[1] - p[1]) * (q[1] - p[1]) + (q[2] - p[2]) * (q[2] - p[2])
    IN  CHOOSE h \in 0..sq : h * h = sq

IntAbs(i) == IF i < 0 THEN -i ELSE i

\* The mean of |dz1 / h1| and |dz2 / h2|, a neighbour at horizontal distance
\* 0 contributing 0, computed in integers.
MeanSlope(v, p, q) ==
    LET h1 == IntDistance(v, p)
        h2 == IntDistance(v, q)
        n1 == IF h1 = 0 THEN 0 ELSE IntAbs(p[3] - v[3])
        n2 == IF h2 = 0 THEN 0 ELSE IntAbs(q[3] - v[3])
        d1 == IF h1 = 0 THEN 1 ELSE h1
        d2 == IF h2 = 0 THEN 1 ELSE h2
    IN  Ratio(n1 * d2 + n2 * d1, 2 * d1 * d2)

\* C4: calculate_slope(vertex, n1, n2) is the arithmetic mean of the two
\* magnitudes |dz / horizontal distance|, a neighbour at horizontal distance
\* 0 contributing 0; it is finite and >= 0.
C4_SlopeIsMeanOfMagnitudes ==
    wpc = "done" =>
        LET t == triangle_points
        IN  /\ slopes[1] = MeanSlope(t[1], t[2], t[3])
            /\ slopes[2] = MeanSlope(t[2], t[1], t[3])
            /\ slopes[3] = MeanSlope(t[3], t[1], t[2])
            /\ \A i \in 1..3 : IsFinite(slopes[i]) /\ slopes[i].s >= 0

\* B lies straight above A (horizontal distance 0, contributing 0) and C
\* at horizontal distance 3: slope_A = (0 + 10/3)/2, slope_B = (0 + 5/3)/2,
\* slope_C = (10/3 + 5/3)/2.
C4_Witness ==
    /\ wpc = "done"
    /\ triangle_points = << <<0, 0, 0>>, <<0, 0, 5>>, <<3, 0, 10>> >>
    /\ slopes = <<Ratio(5, 3), Ratio(5, 6), Ratio(5, 2)>>

\* A and B lie at elevation 0 and C at elevation 10, at three different
\* horizontal positions.
SlopesTowardC(t) ==
    /\ t[1][3] = 0 /\ t[2][3] = 0 /\ t[3][3] = 10
    /\ \A i, j \in 1..3 : i # j => <<t[i][1], t[i][2]>> # <<t[j][1], t[j][2]>>

\* C12: for every non-degenerate triangle whose vertices A and B have
\* elevation 0 and whose vertex C has elevation 10, at pairwise distinct
\* horizontal positions, the weight of C is strictly greater than the weight
\* of A and strictly greater than the weight of B.
C12_SlopeTowardCWeighsCMost ==
    (wpc = "done" /\ ~Degenerate(triangle_points) /\ SlopesTowardC(triangle_points)) =>
        /\ FLt(weights[1], weights[3])
        /\ FLt(weights[2], weights[3])

\* Such a triangle has been weighed and C has the weight 1/2.
C12_Witness ==
    /\ wpc = "done"
    /\ triangle_points = << <<3, 0, 0>>, <<0, 4, 0>>, <<0, 0, 10>> >>
    /\ ~Degenerate(triangle_points)
    /\ SlopesTowardC(triangle_points)
    /\ weights[3] = Ratio(1, 2)

\* ------------------------------------------------------------------------
\* compute_3d_barycentric
\* ------------------------------------------------------------------------

\* The rows of the element table.
NumElements == 3

\* The node table: node_id -> <<long, lat, elevation>>.
NodeTable == << <<0, 0, 0>>, <<3, 0, 5>>, <<0, 4, 10>>, <<-3, 0, 5>> >>

\* The node references an element row may hold; node 5 is in no node table.
ElementNodeIds == {<<1, 2, 3>>, <<2, 4, 3>>, <<1, 5, 3>>}

RowOrders(n) == {f \in [1..n -> 1..n] : \A i, j \in 1..n : f[i] = f[j] => i = j}

\* NULL in an id column of the element table (the ids are positive).
NullId == 0

\* The column pg_id of the element table: the ids 1..n in the order of the
\* rows, or, for the rows in the order of their ids, with a NULL in the
\* first row.
PgIdOf(order, k, null_pg_id) == IF null_pg_id /\ k = 1 THEN NullId ELSE order[k]

\* node_coords_dict.get(node_id): None for an unknown id.
DictGet(dict, node_id) == IF node_id \in DOMAIN dict THEN dict[node_id] ELSE <<>>

NodeIdsOf(row) == <<row.node_id_1, row.node_id_2, row.node_id_3>>

\* all(coord is not None for coord in node_coords)
Resolvable(dict, row) == \A i \in 1..3 : DictGet(dict, NodeIdsOf(row)[i]) # <<>>

\* triangle_points_dem of a row whose nodes resolve.
TrianglePointsOf(dict, row) ==
    << Point(DictGet(dict, row.node_id_1)),
       Point(DictGet(dict, row.node_id_2)),
       Point(DictGet(dict, row.node_id_3)) >>

\* The skip branch dropping its three append(None).
RecordSkippedNothing(list) == list

\* w_X_list.append(None)
RecordSkipped(list) == Append(list, None)

\* The weight put at the front of the list instead of its end.
RecordWeightFront(list, w) == <<w>> \o list

\* w_X_list.append(weights[i])
RecordWeight(list, w) == Append(list, w)

\* A weight as to_parquet stores it: None and NaN become NULL.
ToParquet(w) == IF w.k \in {"none", "nan"} THEN Null ELSE w

MeshInit ==
    /\ WeightsIdle
    /\ InterpIdle
    /\ DepthIdle
    /\ WriteIdle
    /\ node_coords_dict = NodeTable
    /\ \E ids \in [1..NumElements -> ElementNodeIds], order \in RowOrders(NumElements),
          null_pg_id \in BOOLEAN :
          /\ null_pg_id => \A k \in 1..NumElements : order[k] = k
          /\ triangles_df = [k \in 1..NumElements |->
                            [pg_id     |-> PgIdOf(order, k, null_pg_id),
                             node_id_1 |-> ids[order[k]][1],
                             node_id_2 |-> ids[order[k]][2],
                             node_id_3 |-> ids[order[k]][3]]]
    /\ index = 0
    /\ w_A_list = <<>>
    /\ w_B_list = <<>>
    /\ w_C_list = <<>>
    /\ triangle_weights = <<>>
    /\ metadata = <<>>
    /\ printed = <<>>
    /\ temp_exists = FALSE
    /\ conn_open = TRUE
    /\ mpc = "loop"

\* One iteration of the loop over triangles_df, all three nodes found.
ProcessResolved ==
    /\ mpc = "loop"
    /\ index < Len(triangles_df)
    /\ Resolvable(node_coords_dict, triangles_df[index + 1])
    /\ LET w == calculate_barycentric_weights(
                    TrianglePointsOf(node_coords_dict, triangles_df[index + 1]))
       IN  /\ w_A_list' = RecordWeight(w_A_list, w[1])
           /\ w_B_list' = RecordWeight(w_B_list, w[2])
           /\ w_C_list' = RecordWeight(w_C_list, w[3])
    /\ index' = index + 1
    /\ UNCHANGED <<weightVars, interpVars, depthVars, writeVars,
                   node_coords_dict, triangles_df, triangle_weights,
                   metadata, printed, temp_exists, conn_open, mpc>>

\* One iteration of the loop, a node reference not found: print, record
\* None three times, continue.
ProcessUnresolved ==
    /\ mpc = "loop"
    /\ index < Len(triangles_df)
    /\ ~Resolvable(node_coords_dict, triangles_df[index + 1])
    /\ printed' = Append(printed, [text     |-> "problem fetching triangle points",
                                   pg_id    |-> triangles_df[index + 1].pg_id,
                                   node_ids |-> NodeIdsOf(triangles_df[index + 1])])
    /\ w_A_list' = RecordSkipped(w_A_list)
    /\ w_B_list' = RecordSkipped(w_B_list)
    /\ w_C_list' = RecordSkipped(w_C_list)
    /\ index' = index + 1
    /\ UNCHANGED <<weightVars, interpVars, depthVars, writeVars,
                   node_coords_dict, triangles_df, triangle_weights,
                   metadata, temp_exists, conn_open, mpc>>

\* After the loop: the three lists become columns (pandas raises ValueError
\* when a list is not as long as the table), the table goes through
\* temp/bary_weights.parquet into triangle_weights, and its CRS into metadata.
WriteTable ==
    /\ mpc = "loop"
    /\ index = Len(triangles_df)
    /\ IF Len(w_A_list) = Len(triangles_df) /\ Len(w_B_list) = Len(triangles_df)
          /\ Len(w_C_list) = Len(triangles_df)
       THEN /\ triangle_weights' =
                  [k \in 1..Len(triangles_df) |->
                      [pg_id        |-> triangles_df[k].pg_id,
                       node_id_1    |-> triangles_df[k].node_id_1,
                       node_id_2    |-> triangles_df[k].node_id_2,
                       node_id_3    |-> triangles_df[k].node_id_3,
                       node1_weight |-> ToParquet(w_A_list[k]),
                       node2_weight |-> ToParquet(w_B_list[k]),
                       node3_weight |-> ToParquet(w_C_list[k])]]
            /\ metadata' = Append(metadata, <<"triangle_weights", "EPSG:4326">>)
            /\ temp_exists' = TRUE
            /\ mpc' = "check"
       ELSE /\ mpc' = "error"
            /\ UNCHANGED <<triangle_weights, metadata, temp_exists>>
    /\ UNCHANGED <<weightVars, interpVars, depthVars, writeVars,
                   node_coords_dict, triangles_df, index,
                   w_A_list, w_B_list, w_C_list, printed, conn_open>>

\* The null count of no column: every count is 0.
NullCountsNone(table) ==
    [pg_id |-> 0, node_id_1 |-> 0, node_id_2 |-> 0, node_id_3 |-> 0,
     node1_weight |-> 0, node2_weight |-> 0, node3_weight |-> 0]

\* triangle_elements[column].isnull().sum() for every column of
\* triangle_weights, the id columns as the weight columns.
NullCounts(table) ==
    [pg_id        |-> Cardinality({k \in DOMAIN table : table[k].pg_id = NullId}),
     node_id_1    |-> Cardinality({k \in DOMAIN table : table[k].node_id_1 = NullId}),
     node_id_2    |-> Cardinality({k \in DOMAIN table : table[k].node_id_2 = NullId}),
     node_id_3    |-> Cardinality({k \in DOMAIN table : table[k].node_id_3 = NullId}),
     node1_weight |-> Cardinality({k \in DOMAIN table : table[k].node1_weight = Null}),
     node2_weight |-> Cardinality({k \in DOMAIN table : table[k].node2_weight = Null}),
     node3_weight |-> Cardinality({k \in DOMAIN table : table[k].node3_weight = Null})]

\* nan_counts_result.sum().sum(): the counts of all the columns added up.
NanFlag(table) ==
    NullCounts(table).pg_id + NullCounts(table).node_id_1
        + NullCounts(table).node_id_2 + NullCounts(table).node_id_3
        + NullCounts(table).node1_weight + NullCounts(table).node2_weight
        + NullCounts(table).node3_weight

\* The integrity check finds nulls: two prints, nothing else.
CheckFindsNulls ==
    /\ mpc = "check"
    /\ NanFlag(triangle_weights) # 0
    /\ printed' = printed \o << [text |-> "Found nan in triangles check previous steps"],
                               [text |-> "nan_counts_result",
                                counts |-> NullCounts(triangle_weights)] >>
    /\ mpc' = "cleanup"
    /\ UNCHANGED <<weightVars, interpVars, depthVars, writeVars,
                   node_coords_dict, triangles_df, index, w_A_list,
                   w_B_list, w_C_list, triangle_weights, metadata, temp_exists,
                   conn_open>>

\* The integrity check finds no null.
CheckFindsNone ==
    /\ mpc = "check"
    /\ NanFlag(triangle_weights) = 0
    /\ mpc' = "cleanup"
    /\ UNCHANGED <<weightVars, interpVars, depthVars, writeVars,
                   node_coords_dict, triangles_df, index, w_A_list,
                   w_B_list, w_C_list, triangle_weights, metadata, printed,
                   temp_exists, conn_open>>

\* Clean up: remove temp/, close the connection, return.
CleanUp ==
    /\ mpc = "cleanup"
    /\ IF temp_exists
       THEN temp_exists' = FALSE /\ printed' = printed
       ELSE /\ printed' = Append(printed, [text |-> "The folder 'temp' does not exist."])
            /\ temp_exists' = temp_exists
    /\ conn_open' = FALSE
    /\ mpc' = "done"
    /\ UNCHANGED <<weightVars, interpVars, depthVars, writeVars,
                   node_coords_dict, triangles_df, index, w_A_list,
                   w_B_list, w_C_list, triangle_weights, metadata>>

MeshNext ==
    \/ ProcessResolved
    \/ ProcessUnresolved
    \/ WriteTable
    \/ CheckFindsNulls
    \/ CheckFindsNone
    \/ CleanUp

Spec == MeshInit /\ [][MeshNext]_vars

\* ------------------------------------------------------------------------
\* Claims about compute_3d_barycentric
\* ------------------------------------------------------------------------

\* The weights of the node triples all of whose nodes are in the node table,
\* worked out from the coordinates of NodeTable: nodes 1, 2, 3 have slopes
\* 25/12, 4/3, 7/4 and nodes 2, 4, 3 have slopes 1/2, 1/2, 1; the area shares
\* around the slope-weighted centroid are the slope shares.
WeightsOfNodes ==
    { << <<1, 2, 3>>, <<Ratio(25, 62), Ratio(8, 31), Ratio(21, 62)>> >>,
      << <<2, 4, 3>>, <<Ratio(1, 4), Ratio(1, 4), Ratio(1, 2)>> >> }

\* The weights of a row, those of its own nodes.
OwnWeights(row) == (CHOOSE e \in WeightsOfNodes : e[1] = NodeIdsOf(row))[2]

\* The three weights as the weights table stores them.
StoredWeights(w) == <<ToParquet(w[1]), ToParquet(w[2]), ToParquet(w[3])>>

\* C5: an element with a node id that is not in the node lookup gets None
\* for all three weights and the loop goes on; when the loop has ended and
\* the table is written each list has one entry per element, in element
\* order, a resolvable element holding its own weights; the run is never
\* aborted.
C5_UnresolvableSkippedNotAborted ==
    /\ mpc # "error"
    /\ mpc = "loop" =>
          Len(w_A_list) = index /\ Len(w_B_list) = index /\ Len(w_C_list) = index
    /\ mpc = "check" =>
          /\ Len(w_A_list) = Len(triangles_df)
          /\ Len(w_B_list) = Len(triangles_df)
          /\ Len(w_C_list) = Len(triangles_df)
          /\ \A k \in 1..Len(triangles_df) :
                IF \E i \in 1..3 : NodeIdsOf(triangles_df[k])[i] \notin DOMAIN NodeTable
                THEN <<w_A_list[k], w_B_list[k], w_C_list[k]>> = <<None, None, None>>
                ELSE <<w_A_list[k], w_B_list[k], w_C_list[k]>> = OwnWeights(triangles_df[k])

\* The run has ended; its first element was skipped and a later one weighed.
C5_Witness ==
    /\ mpc = "done"
    /\ triangles_df[1].node_id_2 = 5
    /\ w_A_list[1] = None
    /\ triangles_df[2].node_id_2 # 5
    /\ IsFinite(w_A_list[2])
    /\ Len(printed) >= 1

\* C6: the weights of an element depend only on the coordinates of its three
\* nodes: whatever the order of the rows, when the run has ended the row of
\* every pg_id holds the weights of its own nodes.
C6_WeightsIndependentOfOrder ==
    mpc = "done" =>
        \A k \in DOMAIN triangle_weights :
            LET row == triangle_weights[k]
            IN  Resolvable(NodeTable, row) =>
                    <<row.node1_weight, row.node2_weight, row.node3_weight>>
                        = StoredWeights(OwnWeights(row))

\* Two elements with different nodes were processed in descending pg_id
\* order and each holds its own weights.
C6_Witness ==
    /\ mpc = "done"
    /\ triangle_weights[1].pg_id > triangle_weights[2].pg_id
    /\ NodeIdsOf(triangle_weights[1]) = <<1, 2, 3>>
    /\ NodeIdsOf(triangle_weights[2]) = <<2, 4, 3>>
    /\ triangle_weights[1].node1_weight # triangle_weights[2].node1_weight
    /\ IsFinite(triangle_weights[1].node1_weight)
    /\ IsFinite(triangle_weights[2].node1_weight)

\* ------------------------------------------------------------------------
\* bary_interpolation.py: interpolate
\* ------------------------------------------------------------------------

\* SQL arithmetic: NULL in, NULL out.
SqlMul(a, b) == IF a = Null \/ b = Null THEN Null ELSE FMul(a, b)

SqlDiv(a, b) == IF a = Null \/ b = Null THEN Null ELSE FDiv(a, b)

SqlSub(a, b) == IF a = Null \/ b = Null THEN Null ELSE FSub(a, b)

\* One step of SUM: a NULL is skipped.
SqlAdd(total, v) ==
    IF v = Null THEN total ELSE IF total = Null THEN v ELSE FAdd(total, v)

\* SUM over a column (a function from rows to values): NULL when no value
\* is left to add.
RECURSIVE SqlSum(_)
SqlSumWith(column, r) ==
    SqlAdd(SqlSum([x \in DOMAIN column \ {r} |-> column[x]]), column[r])

SqlSum(column) ==
    IF DOMAIN column = {} THEN Null
    ELSE SqlSumWith(column, CHOOSE r \in DOMAIN column : TRUE)

\* wse_weighted_average of an element after the left join on pg_id: NULL
\* for an element without a row in triangle_barycentric.
ElementWse(merged_polys, pg_id) ==
    IF pg_id \in DOMAIN merged_polys THEN merged_polys[pg_id] ELSE Null

\* The rows of a group of group_by("cell").
CellRows(z_w, cell) == {r \in z_w : r.cell = cell}

\* The summand of weighted_sum with the coverage fraction left out.
UnweightedTerm(wse_weighted_average, coverage) == wse_weighted_average

\* wse_weighted_average * coverage_fraction
WeightedTerm(wse_weighted_average, coverage) == SqlMul(wse_weighted_average, coverage)

\* numerator: weighted_sum of a cell
WeightedSum(z_w, merged_polys, cell) ==
    SqlSum([r \in CellRows(z_w, cell) |->
               WeightedTerm(ElementWse(merged_polys, r.pg_id), r.coverage_fraction)])

\* denominator: coverage_sum of a cell
CoverageSum(z_w, cell) ==
    SqlSum([r \in CellRows(z_w, cell) |-> r.coverage_fraction])

\* z_w_merged after the aggregation by cell: one row per cell of z_w with
\* wse_cell_weighted_average = weighted_sum / coverage_sum.
CellAverages(z_w, merged_polys) ==
    {[cell |-> c,
      wse_cell_weighted_average |->
          SqlDiv(WeightedSum(z_w, merged_polys, c), CoverageSum(z_w, c))] :
        c \in {r.cell : r \in z_w}}

\* z_w_cell: the first elevation of each cell.
FirstElevation(z_w, cell) == (CHOOSE r \in CellRows(z_w, cell) : TRUE).elevation

\* ~elevation.isnan(), as a filter: a NULL does not pass either.
ElevationKept(elevation) == elevation # Null /\ ~IsNaN(elevation)

\* The join with the elevation of the cell and the filter on it.
WithElevation(rows, z_w) ==
    {r2 \in {[cell |-> r.cell,
              wse_cell_weighted_average |-> r.wse_cell_weighted_average,
              elevation |-> FirstElevation(z_w, r.cell)] : r \in rows} :
        ElevationKept(r2.elevation)}

\* depth > 0 in place of depth >= 0.
DepthKeptPositive(d) == d # Null /\ FLt(Zero, d)

\* The filter depth >= 0, as DuckDB evaluates it: a NULL does not pass, and
\* NaN, which DuckDB orders above every number, does.
DepthKept(d) == d # Null /\ (IsNaN(d) \/ FLe(Zero, d))

\* z_w_with_depth filtered: the rows of the table depth.
DepthRows(rows) ==
    {r2 \in {[cell |-> r.cell,
              wse_cell_weighted_average |-> r.wse_cell_weighted_average,
              elevation |-> r.elevation,
              depth |-> SqlSub(r.wse_cell_weighted_average, r.elevation)] : r \in rows} :
        DepthKept(r2.depth)}

\* ibis.coalesce
Coalesce(a, b) == IF a # Null THEN a ELSE b

\* wse_cell_weighted_average of z_w_merged as the left join from
\* cell_range_table sees it: NULL for a cell without a row.
JoinedWse(rows, cell) ==
    IF \E r \in rows : r.cell = cell
    THEN (CHOOSE r \in rows : r.cell = cell).wse_cell_weighted_average
    ELSE Null

\* z_w_merged_with_missing before the ordering.
WithMissing(range_table, rows) ==
    {[cell |-> g.cell,
      wse_cell_weighted_average |->
          Coalesce(JoinedWse(rows, g.cell), g.wse_cell_weighted_average)] :
        g \in range_table}

\* order_by('cell') and execute(): a frame whose rows are numbered from 0
\* (here position k is row k - 1).
OrderByCell(rows) ==
    [k \in 1..Cardinality(rows) |->
        CHOOSE r \in rows : Cardinality({x \in rows : x.cell < r.cell}) = k - 1]

\* df_complete.index of the row at position k.
CellIndex(k) == k - 1

\* ((cell_indices - 1) // width)
RowIndex(cell_index, w) == (cell_index - 1) \div w

\* The column without the shift to 0-based cells: cell_indices % width.
ColIndexUnshifted(cell_index, w) == cell_index % w

\* ((cell_indices - 1) % width)
ColIndex(cell_index, w) == (cell_index - 1) % w

\* numpy's index i into an axis of length n: a negative one counts from the
\* end.
PyIndex(i, n) == IF i < 0 THEN i + n ELSE i

\* The pixel the row at position k of the frame is written to.
PixelOf(k, w, h) ==
    <<PyIndex(RowIndex(CellIndex(k), w), h), PyIndex(ColIndex(CellIndex(k), w), w)>>

LastOf(S) == CHOOSE k \in S : \A j \in S : j <= k

\* np.zeros((height, width)) with raster_array[row_indices, col_indices] =
\* values: of the rows written to one pixel the last stays.
RasterArray(frame, w, h) ==
    [p \in (0..(h - 1)) \X (0..(w - 1)) |->
        IF \E k \in 1..Len(frame) : PixelOf(k, w, h) = p
        THEN frame[LastOf({k \in 1..Len(frame) : PixelOf(k, w, h) = p})].wse_cell_weighted_average
        ELSE Zero]

\* The reference raster has at most MaxWidth columns and MaxHeight rows.
MaxWidth == 3

MaxHeight == 2

\* The mesh lies over the first cells of the raster, MaxCoveredCells at most.
MaxCoveredCells == 2

Half == Ratio(1, 2)

\* The elements over one cell: sets of <<pg_id, coverage_fraction>>.
CoveragePatterns ==
    { {<<1, Half>>, <<2, Half>>},
      {<<1, Half>>, <<2, One>>},
      {<<2, One>>} }

\* The elevation sampled for a cell.
CellElevations == {NaN, FromInt(5), FromInt(7)}

\* triangle_barycentric: element 2 with a WSE, with a NULL WSE, without a row.
WseTables ==
    { <<FromInt(5), FromInt(8)>>, <<FromInt(5), Null>>, <<FromInt(5)>> }

\* The coverage table of the cells covered, each with the elements of its
\* pattern and with its elevation on each of its rows.
CoverageTable(covered, pattern, elevation) ==
    UNION {{[pg_id |-> e[1], cell |-> c, coverage_fraction |-> e[2],
             elevation |-> elevation[c]] : e \in pattern[c]} : c \in covered}

InterpInit ==
    /\ WeightsIdle
    /\ MeshIdle
    /\ DepthIdle
    /\ WriteIdle
    /\ save_raster \in BOOLEAN
    /\ width \in 1..MaxWidth
    /\ height \in 1..MaxHeight
    /\ \E covered \in SUBSET ((1..(width * height)) \cap (1..MaxCoveredCells)) :
          \E pattern \in [covered -> CoveragePatterns],
             elevation \in [covered -> CellElevations] :
             coverage_fraction = CoverageTable(covered, pattern, elevation)
    /\ triangle_barycentric \in WseTables
    /\ cell_wse = {}
    /\ z_w_merged = {}
    /\ depth = {}
    /\ cell_range_table = "unbound"
    /\ df_complete = <<>>
    /\ raster_array = <<>>
    /\ raster_file = <<>>
    /\ connections_open = TRUE
    /\ ipc = "start"

\* Lines 58-99: the query is built and create_table("depth") runs it.
WriteDepth ==
    /\ ipc = "start"
    /\ cell_wse' = CellAverages(coverage_fraction, triangle_barycentric)
    /\ z_w_merged' = WithElevation(cell_wse', coverage_fraction)
    /\ depth' = DepthRows(z_w_merged')
    /\ ipc' = "depth"
    /\ UNCHANGED <<weightVars, meshVars, depthVars, writeVars,
                   save_raster, width, height, coverage_fraction,
                   triangle_barycentric, cell_range_table, df_complete, raster_array,
                   raster_file, connections_open>>

\* Lines 101-112, save_raster set: one row per cell of the reference raster,
\* each with the default 0.
LoadGrid ==
    /\ ipc = "depth"
    /\ save_raster
    /\ cell_range_table' =
          {[cell |-> c, wse_cell_weighted_average |-> Zero] : c \in 1..(width * height)}
    /\ ipc' = "grid"
    /\ UNCHANGED <<weightVars, meshVars, depthVars, writeVars,
                   save_raster, width, height, coverage_fraction,
                   triangle_barycentric, cell_wse, z_w_merged, depth, df_complete,
                   raster_array, raster_file, connections_open>>

\* save_raster not set: line 115 reads cell_range_table, which was never
\* bound, and the call ends in an UnboundLocalError with both connections
\* open.
FailUnbound ==
    /\ ipc = "depth"
    /\ ~save_raster
    /\ ipc' = "error"
    /\ UNCHANGED <<weightVars, meshVars, depthVars, writeVars,
                   save_raster, width, height, coverage_fraction,
                   triangle_barycentric, cell_wse, z_w_merged, depth, cell_range_table,
                   df_complete, raster_array, raster_file, connections_open>>

\* Lines 115-130: the left join from cell_range_table, the coalesce, the
\* ordering, execute().
CompleteCells ==
    /\ ipc = "grid"
    /\ df_complete' = OrderByCell(WithMissing(cell_range_table, z_w_merged))
    /\ ipc' = "complete"
    /\ UNCHANGED <<weightVars, meshVars, depthVars, writeVars,
                   save_raster, width, height, coverage_fraction,
                   triangle_barycentric, cell_wse, z_w_merged, depth, cell_range_table,
                   raster_array, raster_file, connections_open>>

\* Lines 132-139.
Rasterize ==
    /\ ipc = "complete"
    /\ raster_array' = RasterArray(df_complete, width, height)
    /\ ipc' = "raster"
    /\ UNCHANGED <<weightVars, meshVars, depthVars, writeVars,
                   save_raster, width, height, coverage_fraction,
                   triangle_barycentric, cell_wse, z_w_merged, depth, cell_range_table,
                   df_complete, raster_file, connections_open>>

\* raster_array.astype('float32'), difference.astype(rasterio.float32)
AsTypeFloat32(array) == [p \in DOMAIN array |-> AsFloat32(array[p])]

\* Lines 141-156: the array is written as band 1, as float32, and both
\* connections are closed.
WriteRaster ==
    /\ ipc = "raster"
    /\ raster_file' = AsTypeFloat32(raster_array)
    /\ connections_open' = FALSE
    /\ ipc' = "done"
    /\ UNCHANGED <<weightVars, meshVars, depthVars, writeVars,
                   save_raster, width, height, coverage_fraction,
                   triangle_barycentric, cell_wse, z_w_merged, depth, cell_range_table,
                   df_complete, raster_array>>

InterpNext ==
    \/ WriteDepth
    \/ LoadGrid
    \/ FailUnbound
    \/ CompleteCells
    \/ Rasterize
    \/ WriteRaster

SpecInterp == InterpInit /\ [][InterpNext]_vars

\* ------------------------------------------------------------------------
\* Claims about interpolate
\* ------------------------------------------------------------------------

\* The cells of the coverage table.
CoveredCells == {r.cell : r \in coverage_fraction}

\* A whole number as an integer.
IntOf(x) == x.s * BNToNat(x.n)

\* The sum of an integer-valued function.
RECURSIVE IntSum(_)
IntSum(f) ==
    IF DOMAIN f = {} THEN 0
    ELSE LET r == CHOOSE x \in DOMAIN f : TRUE
         IN  f[r] + IntSum([x \in DOMAIN f \ {r} |-> f[x]])

\* sum(element_wse * coverage_fraction) / sum(coverage_fraction) over the
\* coverage rows of a cell whose elements all have a WSE, computed in
\* integers with the coverage fractions counted in halves.
ExpectedCellWse(cell) ==
    LET rows == CellRows(coverage_fraction, cell)
        cov2 == [r \in rows |-> IntOf(FMul(FromInt(2), r.coverage_fraction))]
    IN  Ratio(IntSum([r \in rows |-> IntOf(triangle_barycentric[r.pg_id]) * cov2[r]]),
              IntSum(cov2))

\* Every element over the cell has a row in triangle_barycentric with a WSE.
AllWseDefined(cell) ==
    \A r \in CellRows(coverage_fraction, cell) :
        r.pg_id \in DOMAIN triangle_barycentric /\ triangle_barycentric[r.pg_id] # Null

\* C7: for every cell whose overlapping elements all have a defined WSE,
\* wse_cell_weighted_average is sum(element_wse * coverage_fraction) /
\* sum(coverage_fraction) over the coverage rows of the cell; a cell covered
\* by one element with coverage 1 gets that element's WSE, and a cell
\* covered by two elements with equal coverage gets the mean of their WSE.
C7_CellWseIsCoverageWeightedMean ==
    ipc \notin {"idle", "start"} =>
        \A c \in CoveredCells :
            AllWseDefined(c) =>
                /\ Cardinality({r \in cell_wse : r.cell = c}) = 1
                /\ \A r \in cell_wse :
                      r.cell = c =>
                          LET rows == CellRows(coverage_fraction, c)
                              avg  == r.wse_cell_weighted_average
                          IN  /\ avg = ExpectedCellWse(c)
                              /\ \A e \in rows :
                                    (rows = {e} /\ e.coverage_fraction = One) =>
                                        avg = triangle_barycentric[e.pg_id]
                              /\ \A e1, e2 \in rows :
                                    (rows = {e1, e2} /\ e1 # e2
                                     /\ e1.coverage_fraction = e2.coverage_fraction) =>
                                        FAdd(avg, avg) = FAdd(triangle_barycentric[e1.pg_id],
                                                              triangle_barycentric[e2.pg_id])

\* Cell 1 lies half under element 1 (WSE 5) and wholly under element 2
\* (WSE 8), cell 2 half under each: (2.5 + 8) / 1.5 = 7 and (2.5 + 4) / 1
\* = 13/2.
C7_Witness ==
    /\ ipc = "depth"
    /\ triangle_barycentric = <<FromInt(5), FromInt(8)>>
    /\ {<<r.cell, r.pg_id, r.coverage_fraction>> : r \in coverage_fraction}
          = {<<1, 1, Half>>, <<1, 2, One>>, <<2, 1, Half>>, <<2, 2, Half>>}
    /\ cell_wse = {[cell |-> 1, wse_cell_weighted_average |-> FromInt(7)],
                   [cell |-> 2, wse_cell_weighted_average |-> Ratio(13, 2)]}

\* The cell has a defined elevation and a depth >= 0: its average is not
\* NULL and not below its elevation.
InFloodExtent(cell) ==
    /\ cell \in CoveredCells
    /\ \E r \in coverage_fraction : r.cell = cell /\ IsFinite(r.elevation)
    /\ \E a \in cell_wse :
          /\ a.cell = cell
          /\ a.wse_cell_weighted_average # Null
          /\ \A r \in coverage_fraction :
                r.cell = cell => ~FLt(a.wse_cell_weighted_average, r.elevation)

\* C8: the table depth has exactly one row for each cell of the coverage
\* table whose elevation is defined and whose depth = average - elevation
\* is >= 0 (0 included) and no other row; every row has depth = average -
\* elevation.
C8_DepthTableIsFloodExtent ==
    ipc \notin {"idle", "start"} =>
        /\ \A c \in 1..(width * height) :
              Cardinality({r \in depth : r.cell = c}) = IF InFloodExtent(c) THEN 1 ELSE 0
        /\ \A r \in depth :
              /\ r.cell \in 1..(width * height)
              /\ \E a \in cell_wse :
                    a.cell = r.cell
                    /\ a.wse_cell_weighted_average = r.wse_cell_weighted_average
              /\ \E z \in coverage_fraction : z.cell = r.cell /\ z.elevation = r.elevation
              /\ FAdd(r.depth, r.elevation) = r.wse_cell_weighted_average

\* Cell 1 (element 2 alone: average 8, elevation 7) is in the table with
\* depth 1 and cell 2 (average 7, elevation 7) with depth 0.
C8_Witness ==
    /\ ipc = "depth"
    /\ triangle_barycentric = <<FromInt(5), FromInt(8)>>
    /\ coverage_fraction =
          {[pg_id |-> 2, cell |-> 1, coverage_fraction |-> One, elevation |-> FromInt(7)],
           [pg_id |-> 1, cell |-> 2, coverage_fraction |-> Half, elevation |-> FromInt(7)],
           [pg_id |-> 2, cell |-> 2, coverage_fraction |-> One, elevation |-> FromInt(7)]}
    /\ depth = {[cell |-> 1, wse_cell_weighted_average |-> FromInt(8),
                 elevation |-> FromInt(7), depth |-> One],
                [cell |-> 2, wse_cell_weighted_average |-> FromInt(7),
                 elevation |-> FromInt(7), depth |-> Zero]}

\* C9: the completed cell table has exactly one row for every cell
\* 1..width*height; a cell with a row in the aggregation output keeps its
\* aggregated WSE and only a cell without one gets the default 0; every
\* pixel of the raster is assigned exactly once.
C9_OnlyAbsentCellsGetDefault ==
    ipc \in {"complete", "raster", "done"} =>
        /\ Len(df_complete) = width * height
        /\ \A c \in 1..(width * height) :
              Cardinality({k \in 1..Len(df_complete) : df_complete[k].cell = c}) = 1
        /\ \A k \in 1..Len(df_complete) :
              IF \E r \in z_w_merged : r.cell = df_complete[k].cell
              THEN \A r \in z_w_merged :
                      r.cell = df_complete[k].cell =>
                          df_complete[k].wse_cell_weighted_average
                              = r.wse_cell_weighted_average
              ELSE df_complete[k].wse_cell_weighted_average = Zero
        /\ \A p \in (0..(height - 1)) \X (0..(width - 1)) :
              Cardinality({k \in 1..Len(df_complete) : PixelOf(k, width, height) = p}) = 1

\* C10: in the raster the value of every cell c in 1..width*height is at
\* pixel row (c-1) // width, column (c-1) % width.
C10_CellPlacedRowMajor ==
    ipc \in {"raster", "done"} =>
        \A k \in 1..Len(df_complete) :
            raster_array[<<(df_complete[k].cell - 1) \div width,
                           (df_complete[k].cell - 1) % width>>]
                = df_complete[k].wse_cell_weighted_average

\* ------------------------------------------------------------------------
\* make_depth_raster (bary_interpolation.py)
\* ------------------------------------------------------------------------

\* ==, as numpy compares two floats: nan equals nothing.
FEq(x, y) == x.k # "nan" /\ y.k # "nan" /\ x = y

\* The mismatch test left out: every pair of rasters passes.
CrsMatchAlways(raster1, raster2) == TRUE

\* not (src1.crs != src2.crs)
CrsMatch(raster1, raster2) == raster1.crs = raster2.crs

\* nodata_value = raster1_nodata if raster1_nodata is not None else
\* raster2_nodata
NodataValue(raster1_nodata, raster2_nodata) ==
    IF raster1_nodata # None THEN raster1_nodata ELSE raster2_nodata

\* difference = wse_values - dem_values, pixel by pixel; dem_values is read
\* with out_shape=wse_values.shape.
Difference(wse_values, dem_values) ==
    [p \in DOMAIN wse_values |-> FSub(wse_values[p], dem_values[p])]

\* difference[(wse_values == nodata_value) | (dem_values == nodata_value)]
\* = np.nan, when nodata_value is not None.
MaskNodata(difference, wse_values, dem_values, nodata_value) ==
    IF nodata_value = None THEN difference
    ELSE [p \in DOMAIN difference |->
            IF FEq(wse_values[p], nodata_value) \/ FEq(dem_values[p], nodata_value)
            THEN NaN
            ELSE difference[p]]

\* difference[difference <= 0.0] = np.nan, when mask_negative is set.
MaskNegative(difference, mask) ==
    IF mask
    THEN [p \in DOMAIN difference |->
            IF FLe(difference[p], Zero) THEN NaN ELSE difference[p]]
    ELSE difference

\* Lines 223-231: the array written as band 1 of the depth raster.
DepthDifference(wse_values, dem_values, nodata_value, mask) ==
    MaskNegative(MaskNodata(Difference(wse_values, dem_values),
                            wse_values, dem_values, nodata_value), mask)

\* Lines 200-237 when the two CRS are equal: the masked difference is
\* written as float32 to data/depth_barycentric_interpolation.tif.
MakeDepthRaster ==
    /\ dpc = "start"
    /\ CrsMatch(src1, src2)
    /\ depth_raster_file' =
          AsTypeFloat32(DepthDifference(src1.values, src2.values,
                                        NodataValue(src1.nodata, src2.nodata),
                                        mask_negative))
    /\ dpc' = "done"
    /\ UNCHANGED <<weightVars, meshVars, interpVars, writeVars, src1, src2, mask_negative>>

\* Lines 208-211: the two CRS differ, ValueError is raised inside the two
\* with blocks, before anything is computed or written.
RaiseCrsMismatch ==
    /\ dpc = "start"
    /\ ~CrsMatch(src1, src2)
    /\ dpc' = "error"
    /\ UNCHANGED <<weightVars, meshVars, interpVars, writeVars, src1, src2, mask_negative,
                   depth_raster_file>>

\* The rasters of a call of make_depth_raster have one row of at most
\* MaxPixels pixels.
MaxPixels == 2

CrsCodes == {"EPSG:4326", "EPSG:5070"}

WsePixelValues == {FromInt(-1), Zero, FromInt(2), NaN}

DemPixelValues == {FromInt(-2), Zero, FromInt(2)}

WseNodataValues == {None, FromInt(-1), NaN}

DemNodataValues == {None, FromInt(-1), FromInt(-2)}

DepthInit ==
    /\ WeightsIdle
    /\ MeshIdle
    /\ InterpIdle
    /\ WriteIdle
    /\ \E n \in 1..MaxPixels :
          /\ src1 \in [values : [{0} \X (0..(n - 1)) -> WsePixelValues],
                       nodata : WseNodataValues, crs : CrsCodes]
          /\ src2 \in [values : [{0} \X (0..(n - 1)) -> DemPixelValues],
                       nodata : DemNodataValues, crs : CrsCodes]
    /\ mask_negative \in BOOLEAN
    /\ depth_raster_file = <<>>
    /\ dpc = "start"

DepthNext ==
    \/ MakeDepthRaster
    \/ RaiseCrsMismatch

SpecDepth == DepthInit /\ [][DepthNext]_vars

\* ------------------------------------------------------------------------
\* interpolate followed by make_depth_raster
\* ------------------------------------------------------------------------

\* The cell of the pixel at <<row, col>> of a grid w wide.
CellOfPixel(p, w) == p[1] * w + p[2] + 1

\* The DEM on the grid of the reference raster: the elevation the coverage
\* table holds for a cell it covers, and one elevation for the other cells.
DemGrid(z_w, w, h, other) ==
    [p \in (0..(h - 1)) \X (0..(w - 1)) |->
        IF CellRows(z_w, CellOfPixel(p, w)) # {}
        THEN FirstElevation(z_w, CellOfPixel(p, w))
        ELSE other]

\* The elevation of the one covered cell and of the cells around it.
ScenarioElevations == {FromInt(3), FromInt(7)}

\* One element lies over one cell and covers it fully.
EndToEndInit ==
    /\ WeightsIdle
    /\ MeshIdle
    /\ DepthIdle
    /\ WriteIdle
    /\ save_raster \in BOOLEAN
    /\ width \in 1..MaxWidth
    /\ height \in 1..MaxHeight
    /\ \E c \in (1..(width * height)) \cap (1..MaxCoveredCells), pg \in {1, 2},
          e \in ScenarioElevations :
          coverage_fraction = {[pg_id |-> pg, cell |-> c, coverage_fraction |-> One,
                                elevation |-> e]}
    /\ triangle_barycentric \in WseTables
    /\ cell_wse = {}
    /\ z_w_merged = {}
    /\ depth = {}
    /\ cell_range_table = "unbound"
    /\ df_complete = <<>>
    /\ raster_array = <<>>
    /\ raster_file = <<>>
    /\ connections_open = TRUE
    /\ ipc = "start"

\* make_depth_raster(dem_path) is called after interpolate has returned:
\* wse_path is the raster interpolate wrote, with the CRS and the nodata
\* value of the reference raster (lines 142-153); dem_path is a DEM on the
\* same grid, in the same CRS or in another.
CallMakeDepthRaster ==
    /\ ipc = "done"
    /\ dpc = "idle"
    /\ src1' = [values |-> raster_file, nodata |-> None, crs |-> "EPSG:4326"]
    /\ \E other \in ScenarioElevations, crs \in CrsCodes :
          src2' = [values |-> DemGrid(coverage_fraction, width, height, other),
                   nodata |-> None, crs |-> crs]
    /\ mask_negative' \in BOOLEAN
    /\ dpc' = "start"
    /\ UNCHANGED <<weightVars, meshVars, interpVars, writeVars, depth_raster_file>>

EndToEndNext ==
    \/ InterpNext
    \/ CallMakeDepthRaster
    \/ DepthNext

SpecEndToEnd == EndToEndInit /\ [][EndToEndNext]_vars

\* ------------------------------------------------------------------------
\* Claims about interpolate followed by make_depth_raster
\* ------------------------------------------------------------------------

\* The pixel of cell c in a grid w wide: row (c-1) // w, column (c-1) % w.
PixelOfCell(c, w) == <<(c - 1) \div w, (c - 1) % w>>

\* C11: one element covers one cell fully and the other cells are absent
\* from the coverage table; after interpolate and make_depth_raster with
\* mask_negative, the pixel of the covered cell holds the depth WSE - DEM
\* when the WSE is above the DEM (5 - 3 = 2), and every other cell was
\* backfilled with WSE 0 and is NaN in the depth raster.
C11_EndToEndDepthAtCoveredCell ==
    (dpc = "done" /\ mask_negative) =>
        \A c \in 1..(width * height) :
            IF c \in CoveredCells
            THEN \A r \in coverage_fraction :
                    (/\ ElementWse(triangle_barycentric, r.pg_id) # Null
                     /\ FLt(r.elevation, ElementWse(triangle_barycentric, r.pg_id))) =>
                        depth_raster_file[PixelOfCell(c, width)]
                            = FSub(ElementWse(triangle_barycentric, r.pg_id), r.elevation)
            ELSE /\ raster_file[PixelOfCell(c, width)] = Zero
                 /\ IsNaN(depth_raster_file[PixelOfCell(c, width)])

\* ------------------------------------------------------------------------
\* Claims about make_depth_raster
\* ------------------------------------------------------------------------

\* C13: whenever the CRS of the WSE raster differs from the CRS of the DEM
\* raster the call ends in ValueError, and only then; in that case neither
\* raster is changed (nothing is reprojected) and no depth raster is written
\* or modified.
C13_CrsMismatchIsFatal ==
    /\ [](dpc \in {"done", "error"} =>
             /\ (dpc = "error") = (src1.crs # src2.crs)
             /\ dpc = "error" => depth_raster_file = <<>>)
    /\ [][(dpc = "start" /\ src1.crs # src2.crs) =>
             /\ dpc' = "error"
             /\ UNCHANGED <<src1, src2, depth_raster_file>>]_vars

\* A call with two different CRS has ended in the error and left no file.
C13_Witness ==
    /\ dpc = "error"
    /\ src1.crs = "EPSG:4326"
    /\ src2.crs = "EPSG:5070"
    /\ depth_raster_file = <<>>

\* The pixel holds the NoData value of its own raster, or no number.
HoldsNoData(p) ==
    \/ src1.nodata # None /\ src1.values[p] = src1.nodata
    \/ src2.nodata # None /\ src2.values[p] = src2.nodata
    \/ IsNaN(src1.values[p])
    \/ IsNaN(src2.values[p])

\* C14: with mask_negative exactly the pixels whose depth WSE - DEM is
\* negative or no-data are NaN in the output and every pixel with a depth
\* >= 0, 0 included, keeps its depth; without mask_negative no pixel is
\* masked because of its sign; the output has the shape of the WSE raster.
C14_OnlyNegativeDepthsMasked ==
    dpc = "done" =>
        /\ DOMAIN depth_raster_file = DOMAIN src1.values
        /\ \A p \in DOMAIN src1.values :
              IF HoldsNoData(p)
              THEN IsNaN(depth_raster_file[p])
              ELSE IF mask_negative /\ FLt(FSub(src1.values[p], src2.values[p]), Zero)
              THEN IsNaN(depth_raster_file[p])
              ELSE depth_raster_file[p] = FSub(src1.values[p], src2.values[p])

\* C15: every pixel that holds the NoData value of the WSE raster or the
\* NoData value of the DEM raster is NaN in the output, also when the two
\* rasters declare different NoData values.
C15_NoDataOfEitherRasterIsNaN ==
    dpc = "done" =>
        \A p \in DOMAIN src1.values :
            (\/ src1.nodata # None /\ src1.values[p] = src1.nodata
             \/ src2.nodata # None /\ src2.values[p] = src2.nodata) =>
                IsNaN(depth_raster_file[p])

\* ------------------------------------------------------------------------
\* Claims about the integrity check of compute_3d_barycentric
\* ------------------------------------------------------------------------

\* Lines 244-263: the integrity check and the clean up.
CheckAndCleanUp ==
    \/ CheckFindsNulls
    \/ CheckFindsNone
    \/ CleanUp

\* A run that has written triangle_weights is not stopped from outside: the
\* check and the clean up are straight-line code and are run to the end.
SpecMeshFair == Spec /\ WF_vars(CheckAndCleanUp)

\* The rows of triangle_weights without weights.
RowsWithoutWeights == {k \in DOMAIN triangle_weights : triangle_weights[k].node1_weight = Null}

\* The rows of triangle_weights without pg_id.
RowsWithoutPgId == {k \in DOMAIN triangle_weights : triangle_weights[k].pg_id = NullId}

\* The two lines the integrity check prints for p rows without pg_id and n
\* rows without weights, every node id being there.
Diagnostic(p, n) ==
    << [text |-> "Found nan in triangles check previous steps"],
       [text |-> "nan_counts_result",
        counts |-> [pg_id |-> p, node_id_1 |-> 0, node_id_2 |-> 0, node_id_3 |-> 0,
                    node1_weight |-> n, node2_weight |-> n, node3_weight |-> n]] >>

\* C16: the integrity check runs only when every element has been processed
\* and triangle_weights has been written; when the table holds null weights
\* the check only prints the diagnostic with the null count of each column,
\* and the run then ends normally: the table is kept, the folder temp/ is
\* removed and the connection is closed.
C16_IntegrityCheckIsAdvisory ==
    /\ [](mpc \in {"check", "cleanup", "done"} =>
             /\ index = Len(triangles_df)
             /\ Len(triangle_weights) = Len(triangles_df))
    /\ [][(mpc = "check" /\ RowsWithoutWeights # {}) =>
             /\ mpc' = "cleanup"
             /\ printed' = printed \o Diagnostic(Cardinality(RowsWithoutPgId),
                                                Cardinality(RowsWithoutWeights))
             /\ UNCHANGED <<triangle_weights, metadata, temp_exists, conn_open>>]_vars
    /\ [](mpc = "done" =>
             /\ Len(triangle_weights) = Len(triangles_df)
             /\ ~temp_exists
             /\ ~conn_open)
    /\ (mpc = "check" /\ RowsWithoutWeights # {}) ~> (mpc = "done")

\* A run with one unresolvable element has ended: the diagnostic counts one
\* null in each weight column, the table is there, temp/ and the connection
\* are gone.
C16_Witness ==
    /\ mpc = "done"
    /\ Cardinality(RowsWithoutWeights) = 1
    /\ \E i \in 1..(Len(printed) - 1) : SubSeq(printed, i, i + 1) = Diagnostic(0, 1)
    /\ Len(triangle_weights) = NumElements
    /\ ~temp_exists
    /\ ~conn_open

\* ------------------------------------------------------------------------
\* Claims about the cell index mapping of interpolate
\* ------------------------------------------------------------------------

\* C17: for every width >= 1, height >= 1 and every cell c in
\* 1..width*height, row = (c-1) // width and col = (c-1) % width satisfy
\* 0 <= row < height, 0 <= col < width and row*width + col + 1 = c.
C17_CellIndexRoundTrip ==
    ipc # "idle" =>
        \A c \in 1..(width * height) :
            /\ 0 <= RowIndex(c, width) /\ RowIndex(c, width) < height
            /\ 0 <= ColIndex(c, width) /\ ColIndex(c, width) < width
            /\ RowIndex(c, width) * width + ColIndex(c, width) + 1 = c

\* The raster of a 3 x 2 grid has been filled; cell 3 ends the first row
\* and cell 4 starts the second.
C17_Witness ==
    /\ ipc = "raster"
    /\ width = 3
    /\ height = 2
    /\ <<RowIndex(3, width), ColIndex(3, width)>> = <<0, 2>>
    /\ <<RowIndex(4, width), ColIndex(4, width)>> = <<1, 0>>

\* ------------------------------------------------------------------------
\* geometry_manipulation.py: tables, frames and rasters
\* ------------------------------------------------------------------------

\* The cells of a row.  A point is kept as the longitude x and latitude y
\* it was made from together with the chain of CRS its coordinates went
\* through: <<"EPSG:4326">> for the coordinates x, y themselves, one more
\* CRS for every to_crs.
NullCell == <<"null">>

NanCell == <<"nan">>

Num(i) == <<"num", i>>

Str(text) == <<"str", text>>

PointCell(crs_path, x, y) == <<"point", crs_path, x, y>>

\* A polygon of the valid data of a raster, with the places it covers.
PolygonCell(crs, region) == <<"polygon", crs, region>>

\* The rows of a frame, in its order, as the rows of a table, which have
\* none.
RECURSIVE BagOfRows(_)
BagOfRows(rows) ==
    IF rows = <<>> THEN EmptyBag ELSE SetToBag({Head(rows)}) (+) BagOfRows(Tail(rows))

\* The rows a WHERE clause keeps.
SelectRows(rows, kept) == [r \in {x \in DOMAIN rows : x \in kept} |-> rows[r]]

HasTable(tables, name) == \E t \in tables : t[1] = name

TableOf(tables, name) == (CHOOSE t \in tables : t[1] = name)[2]

HasColumn(table, column) == \E i \in 1..Len(table.columns) : table.columns[i] = column

ColumnIndex(table, column) == CHOOSE i \in 1..Len(table.columns) : table.columns[i] = column

CellOf(table, row, column) == row[ColumnIndex(table, column)]

\* create_table(table_name, df, overwrite=True) and CREATE OR REPLACE TABLE
\* table_name AS SELECT ...
CreateOrReplace(tables, name, table) ==
    {t \in tables : t[1] # name} \cup {<<name, table>>}

\* A float column as to_parquet stores it: NaN becomes NULL.
ToParquetCell(cell) == IF cell = NanCell THEN NullCell ELSE cell

\* The table DuckDB reads from the parquet file of a frame.
FrameTable(frame) == [columns |-> frame.columns, rows |-> BagOfRows(frame.rows)]

\* What is left in temp/ once the files of the call are removed; os.rmdir
\* succeeds when nothing is.
LeftInTemp(folder, own_files) == folder.files \ own_files

FolderAfter(folder, own_files) ==
    IF LeftInTemp(folder, own_files) = {} THEN NoFolder
    ELSE [exists |-> TRUE, files |-> LeftInTemp(folder, own_files)]

\* ------------------------------------------------------------------------
\* The data of the calls
\* ------------------------------------------------------------------------

\* node_id, long, lat, wse of three nodes.
NodeData == << <<1, 0, 0, 5>>, <<2, 1, 0, 8>>, <<3, 9, 9, 5>> >>

NodeColumns == <<"node_id", "long", "lat", "wse">>

NodeRow(n, geo) ==
    IF geo
    THEN <<Num(n[1]), Num(n[2]), Num(n[3]), Num(n[4]), PointCell(<<"EPSG:4326">>, n[2], n[3])>>
    ELSE <<Num(n[1]), Num(n[2]), Num(n[3]), Num(n[4])>>

\* The first k nodes as a pandas DataFrame or as a GeoDataFrame.
NodeFrame(geo, k) ==
    [given |-> TRUE, geo |-> geo,
     columns |-> IF geo THEN NodeColumns \o <<"geometry">> ELSE NodeColumns,
     rows |-> [i \in 1..k |-> NodeRow(NodeData[i], geo)]]

Frames == {NodeFrame(geo, k) : geo \in BOOLEAN, k \in {0, 1, 3}}

ElementsTable ==
    [columns |-> <<"pg_id", "node_id_1", "node_id_2", "node_id_3">>,
     rows |-> BagOfRows(<< <<Num(1), Num(1), Num(2), Num(4)>> >>)]

\* The data files a path may name, each with the table it holds.
DataFiles == {"nodes.parquet", "elements.parquet"}

FileTable(path) ==
    IF path = "nodes.parquet" THEN FrameTable(NodeFrame(FALSE, 3)) ELSE ElementsTable

\* nodes_elevation as an earlier run left it: node 2 has no elevation and
\* node 3 no row.
ElevationTable ==
    [columns |-> <<"node_id", "long", "lat", "elevation">>,
     rows |-> BagOfRows(<< <<Num(1), Num(0), Num(0), Num(3)>>,
                           <<Num(2), Num(1), Num(0), NullCell>> >>)]

MetadataTable ==
    [columns |-> <<"table_name", "crs">>,
     rows |-> BagOfRows(<< <<Str("triangle_weights"), Str("EPSG:4326")>>,
                           <<Str("points_outside_dem"), Str("EPSG:4326")>> >>)]

\* The database before the call: empty, with the nodes as written from the
\* gr3 file, with their geometry added, and as later steps leave it.
Databases ==
    { {},
      {<<"nodes", FrameTable(NodeFrame(FALSE, 3))>>},
      {<<"nodes", FrameTable(NodeFrame(TRUE, 3))>>},
      {<<"nodes", FrameTable(NodeFrame(TRUE, 3))>>,
       <<"nodes_elevation", ElevationTable>>,
       <<"masked_elements", ElementsTable>>,
       <<"metadata", MetadataTable>>} }

TempFolders ==
    {NoFolder, [exists |-> TRUE, files |-> {}],
     [exists |-> TRUE, files |-> {"bary_weights.parquet"}]}

\* The DEM: its CRS, the regions of valid data (each with the places of
\* NodeData it covers) and the elevation at those places.  The first covers
\* nodes 1 and 2 with one region; the second has two regions, one over node
\* 1 and one over no node.
Rasters ==
    { [crs |-> "EPSG:4326", valid |-> << {<<0, 0>>, <<1, 0>>} >>,
       elevation |-> {<<0, 0, 3>>, <<1, 0, 7>>}],
      [crs |-> "EPSG:5070", valid |-> << {<<0, 0>>}, {} >>,
       elevation |-> {<<0, 0, 3>>}] }

\* ------------------------------------------------------------------------
\* write_to_database
\* ------------------------------------------------------------------------

\* The test of the arguments with the case of both given left out.
NeitherGiven(frame, path) == frame = NoFrame /\ path = NoPath

\* (df is None and df_path is None) or (df is not None and df_path is not
\* None)
InvalidArguments(frame, path) ==
    \/ frame = NoFrame /\ path = NoPath
    \/ frame # NoFrame /\ path # NoPath

\* Lines 58-59: ValueError before anything else is done.
RaiseValueError ==
    /\ tpc = "start"
    /\ call = "write_to_database"
    /\ InvalidArguments(df, df_path)
    /\ tpc' = "error"
    /\ UNCHANGED <<weightVars, meshVars, interpVars, depthVars, writeArgs,
                   database, temp_dir, data_conn>>

\* Lines 62-69: a plain DataFrame becomes the table.
WriteDataFrame ==
    /\ tpc = "start"
    /\ call = "write_to_database"
    /\ ~InvalidArguments(df, df_path)
    /\ df # NoFrame
    /\ ~df.geo
    /\ database' = CreateOrReplace(database, table_name, FrameTable(df))
    /\ data_conn' = "closed"
    /\ tpc' = "done"
    /\ UNCHANGED <<weightVars, meshVars, interpVars, depthVars, writeArgs, temp_dir>>

\* Lines 35-49 of src/tools and 74-93 of cfimvis: the frame goes through
\* temp/temp.parquet into the table, then the file and the folder are
\* removed; os.rmdir raises OSError when the folder holds other files, with
\* the connection open.
WriteThroughTemp ==
    /\ database' = CreateOrReplace(database, table_name, FrameTable(df))
    /\ temp_dir' = FolderAfter(temp_dir, {"temp.parquet"})
    /\ IF LeftInTemp(temp_dir, {"temp.parquet"}) = {}
       THEN data_conn' = "closed" /\ tpc' = "done"
       ELSE data_conn' = "open" /\ tpc' = "os_error"
    /\ UNCHANGED <<weightVars, meshVars, interpVars, depthVars, writeArgs>>

\* Lines 62-96 for a GeoDataFrame.
WriteGeoDataFrame ==
    /\ tpc = "start"
    /\ call = "write_to_database"
    /\ ~InvalidArguments(df, df_path)
    /\ df # NoFrame
    /\ df.geo
    /\ WriteThroughTemp

\* Lines 62-96 for a path: the table is created from the file.
WriteFromPath ==
    /\ tpc = "start"
    /\ call = "write_to_database"
    /\ ~InvalidArguments(df, df_path)
    /\ df = NoFrame
    /\ database' = CreateOrReplace(database, table_name, FileTable(df_path))
    /\ data_conn' = "closed"
    /\ tpc' = "done"
    /\ UNCHANGED <<weightVars, meshVars, interpVars, depthVars, writeArgs, temp_dir>>

\* write_to_database of src/tools/geometry_manipulation.py: df is the only
\* data argument, nothing is tested, and every frame goes through temp/.
EarlierWriteToDatabase ==
    /\ tpc = "start"
    /\ call = "tools.write_to_database"
    /\ WriteThroughTemp

\* ------------------------------------------------------------------------
\* add_point_geo
\* ------------------------------------------------------------------------

\* ALTER TABLE table_name ADD COLUMN geometry GEOMETRY: NULL in every row.
AddGeometryColumn(table) ==
    [columns |-> Append(table.columns, "geometry"),
     rows |-> BagOfAll(LAMBDA r : Append(r, NullCell), table.rows)]

\* ST_Point(x, y)
StPoint(x, y) ==
    IF x[1] = "num" /\ y[1] = "num" THEN PointCell(<<"EPSG:4326">>, x[2], y[2]) ELSE NullCell

\* UPDATE table_name SET geometry = ST_Point(long_col_name, lat_col_nam)
SetPointGeometry(table, lat, long) ==
    [columns |-> table.columns,
     rows |-> BagOfAll(LAMBDA r : [r EXCEPT ![ColumnIndex(table, "geometry")] =
                                       StPoint(CellOf(table, r, long), CellOf(table, r, lat))],
                       table.rows)]

\* Lines 34-43.  The two statements run one after the other, each committed
\* on its own: no table or a column geometry already there fails the first
\* and changes nothing, an unknown coordinate column fails the second and
\* leaves the new column NULL.  An error leaves the connection open.
AddPointGeo ==
    /\ tpc = "start"
    /\ call = "add_point_geo"
    /\ IF ~HasTable(database, table_name)
          \/ HasColumn(TableOf(database, table_name), "geometry")
       THEN database' = database /\ data_conn' = "open" /\ tpc' = "db_error"
       ELSE IF ~HasColumn(TableOf(database, table_name), lat_col_nam)
               \/ ~HasColumn(TableOf(database, table_name), long_col_name)
       THEN /\ database' = CreateOrReplace(database, table_name,
                                           AddGeometryColumn(TableOf(database, table_name)))
            /\ data_conn' = "open"
            /\ tpc' = "db_error"
       ELSE /\ database' =
                  CreateOrReplace(database, table_name,
                                  SetPointGeometry(AddGeometryColumn(TableOf(database,
                                                                             table_name)),
                                                   lat_col_nam, long_col_name))
            /\ data_conn' = "closed"
            /\ tpc' = "done"
    /\ UNCHANGED <<weightVars, meshVars, interpVars, depthVars, writeArgs, temp_dir>>

\* ------------------------------------------------------------------------
\* get_none_overlapping
\* ------------------------------------------------------------------------

\* raster_gdf: one polygon for every region of valid data, in the CRS of
\* the raster.
DemBounds(raster) ==
    [columns |-> <<"geometry">>,
     rows |-> BagOfRows([i \in 1..Len(raster.valid) |->
                            <<PolygonCell(raster.crs, raster.valid[i])>>])]

\* The CRS the coordinates of a point are in.
CrsOf(point) == point[2][Len(point[2])]

\* to_crs(crs) of one geometry, called when the CRS differ.
ToCrs(cell, crs) ==
    IF cell[1] = "point" /\ CrsOf(cell) # crs
    THEN PointCell(Append(cell[2], crs), cell[3], cell[4])
    ELSE cell

\* points_gdf after set_crs(epsg=4326) and, if the raster has another CRS,
\* to_crs(raster_gdf.crs).
TransformedNodes(table, crs) ==
    [columns |-> table.columns,
     rows |-> BagOfAll(LAMBDA r : [r EXCEPT ![ColumnIndex(table, "geometry")] =
                                       ToCrs(r[ColumnIndex(table, "geometry")], crs)],
                       table.rows)]

\* ST_Intersects(tn.geometry, db.geometry)
Intersects(point, polygon) == point[1] = "point" /\ <<point[3], point[4]>> \in polygon[3]

\* The left join with dem_bounds, WHERE db.geometry IS NULL: the points no
\* polygon intersects.
PointsOutsideDem(nodes, bounds) ==
    [columns |-> nodes.columns,
     rows |-> SelectRows(nodes.rows,
                         {r \in DOMAIN nodes.rows :
                             \A b \in DOMAIN bounds.rows :
                                 ~Intersects(CellOf(nodes, r, "geometry"), b[1])})]

\* CREATE TABLE IF NOT EXISTS metadata and the INSERT of the three rows.
InsertMetadata(tables, crs) ==
    CreateOrReplace(tables, "metadata",
        [columns |-> <<"table_name", "crs">>,
         rows |-> (IF HasTable(tables, "metadata")
                   THEN TableOf(tables, "metadata").rows ELSE EmptyBag)
                  (+) BagOfRows(<< <<Str("points_outside_dem"), Str(crs)>>,
                                   <<Str("dem_bounds"), Str(crs)>>,
                                   <<Str("transformed_nodes"), Str(crs)>> >>)])

\* Lines 145-152: the tables dem_bounds and transformed_nodes.
WithDemBounds(tables, nodes, raster) ==
    CreateOrReplace(CreateOrReplace(tables, "dem_bounds", DemBounds(raster)),
                    "transformed_nodes", TransformedNodes(nodes, raster.crs))

\* Lines 158-186: points_outside_dem and the rows of metadata.
WithPointsOutside(tables, raster) ==
    InsertMetadata(CreateOrReplace(tables, "points_outside_dem",
                                   PointsOutsideDem(TableOf(tables, "transformed_nodes"),
                                                    TableOf(tables, "dem_bounds"))),
                   raster.crs)

\* Lines 114-188.  A missing table fails data_conn.table, a table without
\* geometry comes back as a plain DataFrame, which has no set_crs; os.rmdir
\* fails on a folder with other files, after dem_bounds and
\* transformed_nodes were created.
GetNoneOverlapping ==
    /\ tpc = "start"
    /\ call = "get_none_overlapping"
    /\ IF ~HasTable(database, point_gdf_table)
       THEN /\ tpc' = "db_error"
            /\ UNCHANGED <<database, temp_dir>>
       ELSE IF ~HasColumn(TableOf(database, point_gdf_table), "geometry")
       THEN /\ tpc' = "attribute_error"
            /\ UNCHANGED <<database, temp_dir>>
       ELSE IF LeftInTemp(temp_dir, {"dem_bounds.parquet", "transformed_nodes.parquet"}) # {}
       THEN /\ tpc' = "os_error"
            /\ database' = WithDemBounds(database, TableOf(database, point_gdf_table),
                                         dem_path)
            /\ temp_dir' = FolderAfter(temp_dir, {"dem_bounds.parquet",
                                                  "transformed_nodes.parquet"})
       ELSE /\ tpc' = "done"
            /\ database' =
                  WithPointsOutside(WithDemBounds(database,
                                                  TableOf(database, point_gdf_table),
                                                  dem_path),
                                    dem_path)
            /\ temp_dir' = NoFolder
    /\ data_conn' = IF tpc' = "done" THEN "closed" ELSE "open"
    /\ UNCHANGED <<weightVars, meshVars, interpVars, depthVars, writeArgs>>

\* ------------------------------------------------------------------------
\* extract_elevation
\* ------------------------------------------------------------------------

\* float(cog.point(x, y).array[0]), and NaN off the raster (and for a
\* masked pixel).
SampleElevation(raster, point) ==
    IF \E e \in raster.elevation : <<e[1], e[2]>> = <<point[3], point[4]>>
    THEN Num((CHOOSE e \in raster.elevation : <<e[1], e[2]>> = <<point[3], point[4]>>)[3])
    ELSE NanCell

\* values: the elevation under every node, in the CRS of the raster.
ElevationUnder(table, row, raster) ==
    SampleElevation(raster, ToCrs(CellOf(table, row, "geometry"), raster.crs))

\* SELECT node_id, long, lat, elevation FROM the parquet file of the frame.
NodesElevation(table, raster) ==
    [columns |-> <<"node_id", "long", "lat", "elevation">>,
     rows |-> BagOfAll(LAMBDA r : <<CellOf(table, r, "node_id"), CellOf(table, r, "long"),
                                    CellOf(table, r, "lat"),
                                    ToParquetCell(ElevationUnder(table, r, raster))>>,
                       table.rows)]

\* The frame of src/tools, read back with SELECT *: every column of nodes,
\* the geometry brought to the CRS of the raster and back to EPSG:4326, and
\* the elevation.
NodesWithElevation(table, raster) ==
    [columns |-> Append(table.columns, "elevation"),
     rows |-> BagOfAll(LAMBDA r : Append([r EXCEPT ![ColumnIndex(table, "geometry")] =
                                             ToCrs(ToCrs(r[ColumnIndex(table, "geometry")],
                                                         raster.crs), "EPSG:4326")],
                                         ToParquetCell(ElevationUnder(table, r, raster))),
                       table.rows)]

\* Lines 240-253: the frame goes through temp/elevation.parquet into
\* nodes_elevation; os.rmdir fails on a folder with other files, after the
\* table was created.
StoreElevation(table) ==
    /\ database' = CreateOrReplace(database, "nodes_elevation", table)
    /\ temp_dir' = FolderAfter(temp_dir, {"elevation.parquet"})
    /\ IF LeftInTemp(temp_dir, {"elevation.parquet"}) = {}
       THEN data_conn' = "closed" /\ tpc' = "done"
       ELSE data_conn' = "open" /\ tpc' = "os_error"

\* Lines 203-239 when the table nodes cannot be used: it is missing, or it
\* has no geometry and comes back as a plain DataFrame.
NodesUnusable ==
    /\ tpc' = IF ~HasTable(database, "nodes") THEN "db_error" ELSE "attribute_error"
    /\ data_conn' = "open"
    /\ UNCHANGED <<database, temp_dir>>

\* Lines 203-254.
ExtractElevation ==
    /\ tpc = "start"
    /\ call = "extract_elevation"
    /\ IF HasTable(database, "nodes") /\ HasColumn(TableOf(database, "nodes"), "geometry")
       THEN StoreElevation(NodesElevation(TableOf(database, "nodes"), dem_path))
       ELSE NodesUnusable
    /\ UNCHANGED <<weightVars, meshVars, interpVars, depthVars, writeArgs>>

\* extract_elevation of src/tools/geometry_manipulation.py (lines 130-181).
EarlierExtractElevation ==
    /\ tpc = "start"
    /\ call = "tools.extract_elevation"
    /\ IF HasTable(database, "nodes") /\ HasColumn(TableOf(database, "nodes"), "geometry")
       THEN StoreElevation(NodesWithElevation(TableOf(database, "nodes"), dem_path))
       ELSE NodesUnusable
    /\ UNCHANGED <<weightVars, meshVars, interpVars, depthVars, writeArgs>>

\* ------------------------------------------------------------------------
\* mask_nodes
\* ------------------------------------------------------------------------

\* SELECT node_id_1 ... UNION SELECT node_id_2 ... UNION SELECT node_id_3
MaskedNodeIds(elements) ==
    UNION {{CellOf(elements, r, "node_id_1"), CellOf(elements, r, "node_id_2"),
            CellOf(elements, r, "node_id_3")} : r \in DOMAIN elements.rows}

\* SELECT * FROM table_name WHERE node_id IN (...)
MaskedNodes(table, elements) ==
    [columns |-> table.columns,
     rows |-> SelectRows(table.rows,
                         {r \in DOMAIN table.rows :
                             /\ CellOf(table, r, "node_id") # NullCell
                             /\ CellOf(table, r, "node_id") \in MaskedNodeIds(elements)})]

\* Lines 269-285.  The statement fails, and changes nothing, without the
\* table, without masked_elements or without the column node_id.
MaskNodes ==
    /\ tpc = "start"
    /\ call = "mask_nodes"
    /\ IF /\ HasTable(database, table_name)
          /\ HasTable(database, "masked_elements")
          /\ HasColumn(TableOf(database, table_name), "node_id")
       THEN /\ database' =
                  CreateOrReplace(database, masked_table_name,
                                  MaskedNodes(TableOf(database, table_name),
                                              TableOf(database, "masked_elements")))
            /\ data_conn' = "closed"
            /\ tpc' = "done"
       ELSE /\ database' = database
            /\ data_conn' = "open"
            /\ tpc' = "db_error"
    /\ UNCHANGED <<weightVars, meshVars, interpVars, depthVars, writeArgs, temp_dir>>

\* ------------------------------------------------------------------------
\* add_elevation
\* ------------------------------------------------------------------------

\* The pairs of the left join ON n.node_id = e.node_id that WHERE
\* e.elevation IS NOT NULL keeps, each as often as its two rows occur.
ElevationPairs(nodes, elevations) ==
    [p \in {q \in (DOMAIN nodes.rows) \X (DOMAIN elevations.rows) :
               /\ CellOf(nodes, q[1], "node_id") # NullCell
               /\ CellOf(nodes, q[1], "node_id") = CellOf(elevations, q[2], "node_id")
               /\ CellOf(elevations, q[2], "elevation") # NullCell} |->
        nodes.rows[p[1]] * elevations.rows[p[2]]]

\* SELECT n.node_id, n.long, n.lat, n.wse, e.elevation
WithElevationColumn(nodes, elevations) ==
    [columns |-> <<"node_id", "long", "lat", "wse", "elevation">>,
     rows |-> BagOfAll(LAMBDA p : <<CellOf(nodes, p[1], "node_id"),
                                    CellOf(nodes, p[1], "long"),
                                    CellOf(nodes, p[1], "lat"),
                                    CellOf(nodes, p[1], "wse"),
                                    CellOf(elevations, p[2], "elevation")>>,
                       ElevationPairs(nodes, elevations))]

\* The columns the statement names are there.
ElevationJoinable(tables, name, elevations) ==
    /\ HasTable(tables, name)
    /\ HasTable(tables, elevations)
    /\ \A c \in {"node_id", "long", "lat", "wse"} : HasColumn(TableOf(tables, name), c)
    /\ \A c \in {"node_id", "elevation"} : HasColumn(TableOf(tables, elevations), c)

\* Lines 301-314.  The statement fails, and changes nothing, without one of
\* the tables or one of the columns.
AddElevation ==
    /\ tpc = "start"
    /\ call = "add_elevation"
    /\ IF ElevationJoinable(database, table_name, elevation_table)
       THEN /\ database' =
                  CreateOrReplace(database, table_name,
                                  WithElevationColumn(TableOf(database, table_name),
                                                      TableOf(database, elevation_table)))
            /\ data_conn' = "closed"
            /\ tpc' = "done"
       ELSE /\ database' = database
            /\ data_conn' = "open"
            /\ tpc' = "db_error"
    /\ UNCHANGED <<weightVars, meshVars, interpVars, depthVars, writeArgs, temp_dir>>

\* ------------------------------------------------------------------------
\* One call of a function of geometry_manipulation.py
\* ------------------------------------------------------------------------

\* The arguments of one call, each from the values it may take; "" stands
\* for an argument the function does not have.
Arguments(functions, tables, frames, paths, columns, points, masked, elevations, dems) ==
    /\ call \in functions
    /\ table_name \in tables
    /\ df \in frames
    /\ df_path \in paths
    /\ lat_col_nam \in columns
    /\ long_col_name \in columns
    /\ point_gdf_table \in points
    /\ masked_table_name \in masked
    /\ elevation_table \in elevations
    /\ dem_path \in dems

WriteInit ==
    /\ WeightsIdle
    /\ MeshIdle
    /\ InterpIdle
    /\ DepthIdle
    /\ \/ Arguments({"write_to_database"}, {"nodes", "elements"}, Frames \cup {NoFrame},
                    DataFiles \cup {NoPath}, {""}, {""}, {""}, {""}, {NoRaster})
       \/ Arguments({"tools.write_to_database"}, {"nodes", "elements"}, Frames,
                    {NoPath}, {""}, {""}, {""}, {""}, {NoRaster})
       \/ Arguments({"add_point_geo"}, {"nodes", "masked_elements"}, {NoFrame},
                    {NoPath}, {"lat", "long"}, {""}, {""}, {""}, {NoRaster})
       \/ Arguments({"get_none_overlapping"}, {""}, {NoFrame}, {NoPath}, {""},
                    {"nodes", "masked_elements"}, {""}, {""}, Rasters)
       \/ Arguments({"extract_elevation", "tools.extract_elevation"}, {""}, {NoFrame},
                    {NoPath}, {""}, {""}, {""}, {""}, Rasters)
       \/ Arguments({"mask_nodes"}, {"nodes", "nodes_elevation"}, {NoFrame}, {NoPath},
                    {""}, {""}, {"nodes", "masked_nodes"}, {""}, {NoRaster})
       \/ Arguments({"add_elevation"}, {"nodes", "nodes_elevation"}, {NoFrame}, {NoPath},
                    {""}, {""}, {""}, {"nodes_elevation", "elevation"}, {NoRaster})
    /\ database \in Databases
    /\ temp_dir \in TempFolders
    /\ data_conn = "none"
    /\ tpc = "start"

WriteNext ==
    \/ RaiseValueError
    \/ WriteDataFrame
    \/ WriteGeoDataFrame
    \/ WriteFromPath
    \/ EarlierWriteToDatabase
    \/ AddPointGeo
    \/ GetNoneOverlapping
    \/ ExtractElevation
    \/ EarlierExtractElevation
    \/ MaskNodes
    \/ AddElevation

SpecWrite == WriteInit /\ [][WriteNext]_vars

\* ------------------------------------------------------------------------
\* Claims about write_to_database
\* ------------------------------------------------------------------------

\* C18: write_to_database raises ValueError when both df and df_path are
\* given or when neither is given, before a connection is opened and before
\* any table or temporary file is created: the database and the file system
\* are as they were.
C18_InvalidArgumentsRaiseBeforeAnyEffect ==
    /\ []((call = "write_to_database" /\ tpc # "start") =>
             (((df = NoFrame) = (df_path = NoPath)) =>
                 tpc = "error" /\ data_conn = "none"))
    /\ [][(call = "write_to_database" /\ tpc = "start"
           /\ (df = NoFrame) = (df_path = NoPath)) =>
             /\ tpc' = "error"
             /\ UNCHANGED <<database, temp_dir, data_conn>>]_vars

\* A call with a frame and a path has ended in the error; the table that
\* was in the database is still the only one, and no folder temp was made.
C18_Witness ==
    /\ call = "write_to_database"
    /\ tpc = "error"
    /\ df = NodeFrame(TRUE, 1)
    /\ df_path = "nodes.parquet"
    /\ data_conn = "none"
    /\ database = {<<"nodes", FrameTable(NodeFrame(FALSE, 3))>>}
    /\ temp_dir = NoFolder

\* ------------------------------------------------------------------------
\* Further claims about interpolate
\* ------------------------------------------------------------------------

\* C19: a call with save_raster=False creates the depth table and then ends
\* normally: no error is raised, no WSE raster is written, and both
\* connections are closed when it returns.
C19_NoRasterRunEndsNormally ==
    (ipc # "idle" /\ ~save_raster) =>
        /\ ipc \in {"start", "depth", "done"}
        /\ raster_file = <<>>
        /\ ipc = "done" => ~connections_open

\* The WSE of the elements over the cell that have one.
DefinedWseOver(cell) ==
    {ElementWse(triangle_barycentric, z.pg_id) : z \in CellRows(coverage_fraction, cell)}
        \ {Null}

\* C20: a coverage row whose element has no WSE does not bias the average
\* of its cell: the average lies between the least and the greatest WSE of
\* the elements over the cell that have a WSE.
C20_MissingWseDoesNotBias ==
    ipc \notin {"idle", "start"} =>
        \A r \in cell_wse :
            r.wse_cell_weighted_average # Null =>
                /\ \E lo \in DefinedWseOver(r.cell) : FLe(lo, r.wse_cell_weighted_average)
                /\ \E hi \in DefinedWseOver(r.cell) : FLe(r.wse_cell_weighted_average, hi)

\* ------------------------------------------------------------------------
\* Further claims about calculate_barycentric_weights
\* ------------------------------------------------------------------------

\* C21: for every non-degenerate triangle with a non-zero total slope the
\* returned weights are the slopes divided by their sum: the centroid and
\* sub-area steps give back the slope weights.
C21_WeightsAreSlopeShares ==
    (wpc = "done" /\ ~Degenerate(triangle_points) /\ Sum3(slopes) # Zero) =>
        \A i \in 1..3 :
            /\ IsFinite(weights[i])
            /\ FMul(weights[i], Sum3(slopes)) = slopes[i]

\* A triangle with slopes 5/3, 5/6, 5/2 has been weighed: 1/3, 1/6, 1/2.
C21_Witness ==
    /\ wpc = "done"
    /\ triangle_points = << <<0, 0, 0>>, <<0, 0, 5>>, <<3, 0, 10>> >>
    /\ ~Degenerate(triangle_points)
    /\ slopes = <<Ratio(5, 3), Ratio(5, 6), Ratio(5, 2)>>
    /\ weights = <<Ratio(1, 3), Ratio(1, 6), Ratio(1, 2)>>

\* ------------------------------------------------------------------------
\* calculate_barycentric_weights on a triangle and on its reorderings
\* ------------------------------------------------------------------------

\* The orders the three vertices can be passed in.
VertexOrders ==
    {<<1, 2, 3>>, <<1, 3, 2>>, <<2, 1, 3>>, <<2, 3, 1>>, <<3, 1, 2>>, <<3, 2, 1>>}

\* The three entries of t in the given order.
Reordered(t, order) == <<t[order[1]], t[order[2]], t[order[3]]>>

\* u comes before v when the vertices are listed by x, then y, then z.
ListedBefore(u, v) ==
    \/ u[1] < v[1]
    \/ u[1] = v[1] /\ u[2] < v[2]
    \/ u[1] = v[1] /\ u[2] = v[2] /\ u[3] < v[3]

\* A non-degenerate triangle is first passed with its vertices as listed.
ReorderInit ==
    /\ \E o \in Origins : triangle_points \in TriangleInputs(o)
    /\ ListedBefore(triangle_points[1], triangle_points[2])
    /\ ListedBefore(triangle_points[2], triangle_points[3])
    /\ ~Degenerate(triangle_points)
    /\ slopes = <<>>
    /\ weights = <<>>
    /\ wpc = "input"
    /\ MeshIdle
    /\ InterpIdle
    /\ DepthIdle
    /\ WriteIdle

\* weights = calculate_barycentric_weights(triangle_points) once more, with
\* the same three points in another order.
WeighReordered ==
    /\ wpc = "done"
    /\ \E order \in VertexOrders :
          triangle_points' = Reordered(triangle_points, order)
    /\ slopes' = VertexSlopes(Points(triangle_points'))
    /\ weights' = calculate_barycentric_weights(Points(triangle_points'))
    /\ wpc' = "reordered"
    /\ UNCHANGED <<meshVars, interpVars, depthVars, writeVars>>

ReorderNext ==
    \/ Weigh
    \/ WeighReordered

SpecReorder == ReorderInit /\ [][ReorderNext]_vars

\* C22: for every non-degenerate triangle and every order of its three
\* points, the weights of the reordered triangle are the weights of the
\* triangle in that order (each vertex keeps its weight wherever it stands in
\* the input), and calculate_slope gives the same slope with its two
\* neighbour arguments exchanged.
C22_WeightsFollowVertexOrder ==
    /\ [][(wpc = "done" /\ wpc' = "reordered") =>
             \A order \in VertexOrders :
                 triangle_points' = Reordered(triangle_points, order) =>
                     weights' = Reordered(weights, order)]_vars
    /\ [](wpc = "done" =>
             \A order \in VertexOrders :
                 calculate_slope(Points(triangle_points)[order[1]],
                                 Points(triangle_points)[order[2]],
                                 Points(triangle_points)[order[3]])
                     = calculate_slope(Points(triangle_points)[order[1]],
                                       Points(triangle_points)[order[3]],
                                       Points(triangle_points)[order[2]]))

\* The triangle (0, 0, 0), (0, 4, 10), (3, 0, 5) with the weights 25/62,
\* 21/62, 8/31 has been weighed again with its points in the opposite order.
C22_Witness ==
    /\ wpc = "reordered"
    /\ triangle_points = << <<3, 0, 5>>, <<0, 4, 10>>, <<0, 0, 0>> >>
    /\ weights = <<Ratio(8, 31), Ratio(21, 62), Ratio(25, 62)>>

====
